---------------------------- MODULE Spec2Model ----------------------------
(***************************************************************************)
(* Ledger (core.py), Proof-of-Authority consensus (consensus.py) and the   *)
(* three smart contracts (contracts.py) of mcp-memory-blockchain, with the *)
(* two scheduler loops that drive the ledger (server.py,                   *)
(* scripts/blockchain_node.py).                                            *)
(*                                                                         *)
(* Hashes are symbolic: sha256 of a preimage is the pair <<kind, preimage>>*)
(* so two hashes are equal exactly when their preimages are (a collision-  *)
(* free hash).  `kind` names the shape of the serialized preimage.         *)
(***************************************************************************)
EXTENDS Integers, Sequences, FiniteSets, TLC

VARIABLES
    instance_id,               \* Blockchain.instance_id of this node
    program,                   \* which entry point runs: "server" or "node"
    now,                       \* the microsecond clock (time.time() * 1e6)
    chain,                     \* Blockchain.chain
    pending_transactions,      \* Blockchain.pending_transactions
    transaction_pool,          \* Blockchain.transaction_pool (tx_id -> tx)
    validators,                \* ProofOfAuthority.validators, in insertion order
    current_validator_index,   \* ProofOfAuthority.current_validator_index
    held,                      \* the block a caller got from create_block
    chain_file,                \* the node's chain.json snapshot
    created,                   \* every transaction create_transaction returned
    tampered,                  \* was a stored block overwritten from outside
    locks,                     \* MemoryLockContract.state["locks"]
    allocations,               \* ResourceAllocationContract.state["allocations"]
    used,                      \* ResourceAllocationContract.state["used"]
    workflows,                 \* WorkflowAutomationContract.state["workflows"]
    executions,                \* WorkflowAutomationContract.state["executions"]
    loop,                      \* where the consensus loop task stands
    snapshot,                  \* the ContractState a caller got from get_state
    last                       \* the last call: its name, argument and outcome

vars == <<instance_id, program, now, chain, pending_transactions,
          transaction_pool, validators, current_validator_index, held,
          chain_file, created, tampered, locks, allocations, used, workflows,
          executions, loop, snapshot, last>>

ledgerVars == <<chain, pending_transactions, transaction_pool>>
consensusVars == <<validators, current_validator_index>>
lockVars == <<locks>>
resourceVars == <<allocations, used>>
workflowVars == <<workflows, executions>>
contractVars == <<locks, allocations, used, workflows, executions>>

-----------------------------------------------------------------------------
(* Bounds of the model *)

MaxTicks == 1          \* clock readings: now <= MaxTicks * TickMicros
MaxTx == 1             \* create_transaction calls in Spec
MaxChain == 3          \* chain length at which appends stop
MaxBatchTx == 11       \* create_transaction calls in SpecBatch

(* Program constants *)

BatchCap == 10
block_time == 1000
TickMicros == 1000000

-----------------------------------------------------------------------------
(* Values *)

Sha256(kind, preimage) == <<kind, preimage>>

ZeroHash == <<"zero", 0>>
TamperedHash == <<"tampered", 0>>
NoSignature == <<"none", 0>>
NoKey == ""
NoValidator == ""
NoTime == 0 - 1
NoBlock == [none |-> TRUE]
NoSnapshot == [none |-> TRUE]

Operations == {"create_entity"}

\* Transaction.data is a dict of one key whose value is a str; a str is the
\* sequence of its code points: {"name": "1"}
DataValues == {[name |-> <<49>>]}

\* {"message": "MAGI Memory Blockchain Genesis"}, the text cut to "MAGI"
GenesisData == [message |-> <<77, 65, 71, 73>>]
SignKeys == {NoKey}

min(a, b) == IF a <= b THEN a ELSE b

Range(s) == {s[i] : i \in 1..Len(s)}

-----------------------------------------------------------------------------
(* Transaction *)

\* Transaction._calculate_data_hash: over the four content fields as stored now
_calculate_data_hash(tx) ==
    Sha256("h_tx", [instance_id |-> tx.instance_id, operation |-> tx.operation,
                    data |-> tx.data,
                    timestamp_micros |-> tx.timestamp_micros])

\* Transaction.sign
sign(tx, private_key) ==
    [tx EXCEPT !.signature = Sha256("h_sig", <<tx.data_hash, private_key>>)]

\* Transaction.__post_init__: tx_id and data_hash from the content
Transaction(operation, data, timestamp_micros, inst) ==
    LET content == [instance_id |-> inst, operation |-> operation,
                    data |-> data,
                    timestamp_micros |-> timestamp_micros]
    IN  [instance_id |-> inst, operation |-> operation,
         data |-> data, timestamp_micros |-> timestamp_micros,
         signature |-> NoSignature,
         data_hash |-> _calculate_data_hash(content),
         tx_id |-> <<timestamp_micros, inst,
                     Sha256("h_op8", <<operation, data>>)>>]

-----------------------------------------------------------------------------
(* Block *)

\* one level of the merkle fold: pair up, hashing each pair
RECURSIVE MerkleLevel(_)
MerkleLevel(hashes) ==
    IF Len(hashes) = 0 THEN <<>>
    ELSE <<Sha256("h_pair", <<hashes[1], hashes[2]>>)>>
         \o MerkleLevel(SubSeq(hashes, 3, Len(hashes)))

RECURSIVE MerkleFold(_)
MerkleFold(hashes) ==
    IF Len(hashes) <= 1 THEN hashes[1]
    ELSE LET padded == IF Len(hashes) % 2 # 0
                       THEN Append(hashes, hashes[Len(hashes)])
                       ELSE hashes
         IN  MerkleFold(MerkleLevel(padded))

\* _calculate_merkle_root that drops the last hash of an odd-length list
_calculate_merkle_root_drop_odd(transactions) ==
    IF Len(transactions) = 0 THEN Sha256("h_empty", 0)
    ELSE LET n == IF Len(transactions) > 1 /\ Len(transactions) % 2 # 0
                  THEN Len(transactions) - 1 ELSE Len(transactions)
         IN  MerkleFold([i \in 1..n |-> transactions[i].data_hash])

\* Block._calculate_merkle_root
_calculate_merkle_root(transactions) ==
    IF Len(transactions) = 0 THEN Sha256("h_empty", 0)
    ELSE MerkleFold([i \in 1..Len(transactions) |-> transactions[i].data_hash])

\* Block._calculate_hash: over the header fields as stored now
_calculate_hash(block) ==
    Sha256("h_block", [timestamp_micros |-> block.timestamp_micros,
                       index |-> block.index,
                       previous_hash |-> block.previous_hash,
                       validator |-> block.validator,
                       merkle_root |-> block.merkle_root,
                       nonce |-> block.nonce])

\* Block.__post_init__: merkle_root, then block_hash; nonce defaults to 0
Block(index, timestamp_micros, previous_hash, validator, transactions) ==
    LET header == [timestamp_micros |-> timestamp_micros, index |-> index,
                   previous_hash |-> previous_hash, validator |-> validator,
                   merkle_root |-> _calculate_merkle_root(transactions),
                   nonce |-> 0]
    IN  [timestamp_micros |-> timestamp_micros, transactions |-> transactions,
         index |-> index, previous_hash |-> previous_hash,
         validator |-> validator,
         merkle_root |-> header.merkle_root,
         nonce |-> 0,
         block_hash |-> _calculate_hash(header)]

-----------------------------------------------------------------------------
(* Blockchain *)

\* Blockchain._get_timestamp_micros: the time service or the local clock
_get_timestamp_micros == now

LatestBlock(c) == c[Len(c)]

\* Blockchain._create_genesis_block
GenesisBlock(validator, timestamp_micros) ==
    Block(0, timestamp_micros, ZeroHash, validator,
          <<Transaction("genesis", GenesisData, timestamp_micros, validator)>>)

\* Blockchain._validate_transaction
_validate_transaction(tx) == tx.data_hash = _calculate_data_hash(tx)

\* _validate_block without its merkle root check
_validate_block_no_merkle(c, block) ==
    IF block.index = 0 THEN TRUE
    ELSE LET previous_block == LatestBlock(c)
         IN  /\ block.index = previous_block.index + 1
             /\ block.previous_hash = previous_block.block_hash
             /\ block.block_hash = _calculate_hash(block)
             /\ \A i \in 1..Len(block.transactions) :
                    _validate_transaction(block.transactions[i])

\* Blockchain._validate_block, against the chain c
_validate_block(c, block) ==
    IF block.index = 0 THEN TRUE
    ELSE LET previous_block == LatestBlock(c)
         IN  /\ block.index = previous_block.index + 1
             /\ block.previous_hash = previous_block.block_hash
             /\ block.block_hash = _calculate_hash(block)
             /\ block.merkle_root = _calculate_merkle_root(block.transactions)
             /\ \A i \in 1..Len(block.transactions) :
                    _validate_transaction(block.transactions[i])

\* Blockchain.verify_integrity
verify_integrity(c) ==
    \A i \in 1..Len(c) :
        /\ (i > 1 => c[i].previous_hash = c[i - 1].block_hash)
        /\ _validate_block(c, c[i])

\* list.remove(x) guarded by `x in list`: drop the first equal element
RemoveFirst(s, x) ==
    IF \E i \in 1..Len(s) : s[i] = x
    THEN LET k == CHOOSE i \in 1..Len(s) :
                      s[i] = x /\ \A j \in 1..(i - 1) : s[j] # x
         IN  SubSeq(s, 1, k - 1) \o SubSeq(s, k + 1, Len(s))
    ELSE s

\* dict.pop(key, None)
Pop(d, key) == [k \in DOMAIN d \ {key} |-> d[k]]

\* Blockchain.add_block, lines 262-266: the pool and the pending list after the
\* transactions txs[i..] of an appended block are removed
RECURSIVE RemoveFromPool(_, _, _)
RemoveFromPool(pp, txs, i) ==
    IF i > Len(txs) THEN pp
    ELSE RemoveFromPool(
             [pool |-> Pop(pp.pool, txs[i].tx_id),
              pending |-> RemoveFirst(pp.pending, txs[i])], txs, i + 1)

\* Blockchain.create_transaction: the transaction it builds
NewTransaction(operation, data, sign_key) ==
    LET tx == Transaction(operation, data, _get_timestamp_micros, instance_id)
    IN  IF sign_key # NoKey THEN sign(tx, sign_key) ELSE tx

\* create_block that takes every pending transaction, not the first ten
BlockTransactions_no_cap(given, transactions) ==
    IF given THEN transactions ELSE pending_transactions

\* Blockchain.create_block: the transactions it takes (given = FALSE stands
\* for transactions=None) and the pending list it leaves
BlockTransactions(given, transactions) ==
    IF given THEN transactions
    ELSE SubSeq(pending_transactions, 1,
                min(BatchCap, Len(pending_transactions)))

PendingAfterCreate(given) ==
    IF given THEN pending_transactions
    ELSE SubSeq(pending_transactions, BatchCap + 1, Len(pending_transactions))

\* Blockchain.create_block: the block it builds from the transactions txs
NewBlock(txs, validator) ==
    Block(Len(chain), _get_timestamp_micros, LatestBlock(chain).block_hash,
          IF validator # NoValidator THEN validator ELSE instance_id, txs)

-----------------------------------------------------------------------------
(* ProofOfAuthority *)

Validator(id, name) ==
    [instance_id |-> id, name |-> name, is_active |-> TRUE,
     last_block_time |-> NoTime]

\* ProofOfAuthority._add_default_validators / BlockchainNode._init_consensus
DefaultValidators ==
    <<Validator("Melchior-001", "Melchior"),
      Validator("Balthasar-001", "Balthasar"),
      Validator("Caspar-001", "Caspar"),
      Validator("NAS-001", "NAS")>>

\* position of id in the registry vs, 0 when it is not registered
Position(vs, id) ==
    IF \E i \in 1..Len(vs) : vs[i].instance_id = id
    THEN CHOOSE i \in 1..Len(vs) : vs[i].instance_id = id
    ELSE 0

\* [v for v in self.validators.values() if v.is_active]
RECURSIVE ActiveValidators(_)
ActiveValidators(vs) ==
    IF Len(vs) = 0 THEN <<>>
    ELSE (IF vs[1].is_active THEN <<vs[1]>> ELSE <<>>)
         \o ActiveValidators(Tail(vs))

\* get_current_validator that rotates over the whole registry
get_current_validator_registry(vs, ptr) ==
    IF Len(ActiveValidators(vs)) = 0 THEN NoValidator
    ELSE vs[(ptr % Len(vs)) + 1].instance_id

\* ProofOfAuthority.get_current_validator: the instance_id of the validator
\* whose turn it is at pointer value ptr, NoValidator for None
get_current_validator(vs, ptr) ==
    LET active_validators == ActiveValidators(vs)
    IN  IF Len(active_validators) = 0 THEN NoValidator
        ELSE active_validators[(ptr % Len(active_validators)) + 1].instance_id

\* ProofOfAuthority.is_my_turn
is_my_turn(id) ==
    LET current == get_current_validator(validators, current_validator_index)
    IN  current # NoValidator /\ current = id

\* can_create_block that does not ask whose turn it is
can_create_block_any_turn(id) ==
    /\ ~(now - LatestBlock(chain).timestamp_micros < block_time * 1000)
    /\ Len(pending_transactions) > 0

\* ProofOfAuthority.can_create_block: time.time() * 1000 minus the latest
\* block's timestamp_micros / 1000 is compared with block_time, in milliseconds
can_create_block(id) ==
    /\ is_my_turn(id)
    /\ ~(now - LatestBlock(chain).timestamp_micros < block_time * 1000)
    /\ Len(pending_transactions) > 0

\* ProofOfAuthority.validate_block_authority
validate_block_authority(block) ==
    LET k == Position(validators, block.validator)
    IN  k # 0 /\ validators[k].is_active

\* ProofOfAuthority.handle_new_block, lines 187-193: the pointer after block
\* was appended
SyncedIndex(block) ==
    LET active_validators == ActiveValidators(validators)
    IN  IF \E i \in 1..Len(active_validators) :
               active_validators[i].instance_id = block.validator
        THEN (CHOOSE i \in 1..Len(active_validators) :
                  active_validators[i].instance_id = block.validator) - 1 + 1
        ELSE current_validator_index

-----------------------------------------------------------------------------
(* Blocks that arrive from outside the ledger *)

CandidateValidators == {"Balthasar-001", "Intruder-999"}

Defects == {"none", "index0_bad_prev", "bad_index",
            "bad_prev", "nonce", "merkle_root", "merkle_root_rehashed",
            "block_hash", "tx_data_hash", "tx_data"}

\* the peer's clock reading when it built its transaction and its block
PeerTime == TickMicros

ForeignTx(v) == Transaction("create_entity", [name |-> <<50>>], PeerTime, v)

\* A block a peer v hands over: built by Block(...) on the current head, and
\* then wrong in the one way `defect` names
Candidate(defect, v) ==
    LET head == LatestBlock(chain).block_hash
        txs == <<ForeignTx(v)>>
        good == Block(Len(chain), PeerTime, head, v, txs)
        badtx == [ForeignTx(v) EXCEPT !.data_hash = TamperedHash]
    IN  CASE defect = "none" -> good
          [] defect = "index0_bad_prev" -> Block(0, PeerTime, ZeroHash, v, txs)
          [] defect = "bad_index" ->
                 Block(Len(chain) + 1, PeerTime, head, v, txs)
          [] defect = "bad_prev" ->
                 Block(Len(chain), PeerTime, ZeroHash, v, txs)
          [] defect = "nonce" -> [good EXCEPT !.nonce = 999999]
          [] defect = "merkle_root" -> [good EXCEPT !.merkle_root = TamperedHash]
          [] defect = "merkle_root_rehashed" ->
                 LET b == [good EXCEPT !.merkle_root = TamperedHash]
                 IN  [b EXCEPT !.block_hash = _calculate_hash(b)]
          [] defect = "block_hash" -> [good EXCEPT !.block_hash = TamperedHash]
          [] defect = "tx_data_hash" ->
                 Block(Len(chain), PeerTime, head, v, <<badtx>>)
          [] defect = "tx_data" ->
                 [good EXCEPT !.transactions =
                                  <<[ForeignTx(v) EXCEPT
                                       !.data = [name |-> <<51>>]]>>]

ConsensusDefects == {"none", "index0_bad_prev", "bad_prev", "tx_data"}

Candidates ==
    {Candidate(d, v) : d \in ConsensusDefects, v \in CandidateValidators}

LedgerCandidates == {Candidate(d, "Balthasar-001") : d \in Defects}

-----------------------------------------------------------------------------
(* Python dicts: functions whose domain is the set of keys *)

EmptyDict == <<>>

\* key in d
Has(d, key) == key \in DOMAIN d

\* d.get(key, default)
Get(d, key, default) == IF key \in DOMAIN d THEN d[key] ELSE default

\* d[key] = value
Put(d, key, value) ==
    [k \in DOMAIN d \cup {key} |-> IF k = key THEN value ELSE d[k]]

\* del d[key]
Del(d, key) ==
    IF DOMAIN d \ {key} = {} THEN EmptyDict
    ELSE [k \in DOMAIN d \ {key} |-> d[k]]

-----------------------------------------------------------------------------
(* The state after construction *)

\* the record of a call: the block it was given or returned, whether it
\* returned true (or a value), whether it raised; for create_block also
\* whether a transaction list was given, and the list
Call(op, block, ok, raised) ==
    [transactions |-> <<>>, block |-> block, validator |-> NoValidator,
     given |-> FALSE, op |-> op, ok |-> ok, raised |-> raised,
     params |-> <<>>, caller |-> NoValidator, result |-> <<>>,
     before |-> <<>>, contract |-> ""]

Init ==
    /\ instance_id = "Melchior-001"
    /\ program \in {"server", "node"}
    /\ now = TickMicros
    /\ chain = <<GenesisBlock("GENESIS", now)>>
    /\ pending_transactions = <<>>
    /\ transaction_pool = <<>>
    /\ validators = DefaultValidators
    /\ current_validator_index = 0
    /\ held = NoBlock
    /\ chain_file = <<>>
    /\ created = <<>>
    /\ tampered = FALSE
    /\ locks = EmptyDict
    /\ allocations = EmptyDict
    /\ used = [cpu |-> 0, memory |-> 0, storage |-> 0]
    /\ workflows = EmptyDict
    /\ executions = EmptyDict
    /\ loop = "poll"
    /\ snapshot = NoSnapshot
    /\ last = Call("init", NoBlock, TRUE, FALSE)

-----------------------------------------------------------------------------
(* Ledger operations *)

\* the clock moves on between two calls
Tick ==
    /\ now < (MaxTicks + 1) * TickMicros
    /\ now' = now + TickMicros
    /\ last' = Call("tick", NoBlock, TRUE, FALSE)
    /\ UNCHANGED contractVars
    /\ UNCHANGED <<instance_id, program, snapshot, loop, ledgerVars,
                   consensusVars, held, chain_file, created, tampered>>

\* Blockchain.create_transaction
CreateTransactionOf(operation, data, sign_key) ==
    LET tx == NewTransaction(operation, data, sign_key)
    IN  /\ transaction_pool' =
               [k \in DOMAIN transaction_pool \cup {tx.tx_id} |->
                   IF k = tx.tx_id THEN tx ELSE transaction_pool[k]]
        /\ pending_transactions' = Append(pending_transactions, tx)
        /\ created' = Append(created, tx)
        /\ last' = Call("create_transaction", NoBlock, TRUE, FALSE)
        /\ UNCHANGED contractVars
        /\ UNCHANGED <<instance_id, program, snapshot, loop, now, chain,
                       consensusVars, held, chain_file, tampered>>

CreateTransaction ==
    /\ Len(created) < MaxTx
    /\ \E operation \in Operations, data \in DataValues, sign_key \in SignKeys :
           CreateTransactionOf(operation, data, sign_key)

\* create_block that builds a block even from no transactions
CreateBlockOf_no_check(given, transactions, validator) ==
    LET txs == BlockTransactions(given, transactions)
    IN  /\ pending_transactions' = PendingAfterCreate(given)
        /\ held' = NewBlock(txs, validator)
        /\ last' = [Call("create_block", held', TRUE, FALSE) EXCEPT
                       !.given = given, !.transactions = transactions]
        /\ UNCHANGED contractVars
        /\ UNCHANGED <<instance_id, program, snapshot, loop, now, chain,
                       transaction_pool, consensusVars, chain_file, created,
                       tampered>>

\* Blockchain.create_block(transactions, validator)
CreateBlockOf(given, transactions, validator) ==
    LET txs == BlockTransactions(given, transactions)
    IN  /\ pending_transactions' = PendingAfterCreate(given)
        /\ IF Len(txs) = 0
           THEN /\ last' = [Call("create_block", NoBlock, FALSE, TRUE) EXCEPT
                               !.given = given, !.transactions = transactions]
                /\ held' = held
           ELSE /\ held' = NewBlock(txs, validator)
                /\ last' = [Call("create_block", held', TRUE, FALSE) EXCEPT
                               !.given = given, !.transactions = transactions]
        /\ UNCHANGED contractVars
        /\ UNCHANGED <<instance_id, program, snapshot, loop, now, chain,
                       transaction_pool, consensusVars, chain_file, created,
                       tampered>>

CreateBlock ==
    \/ \E validator \in {NoValidator, "Balthasar-001"} :
           CreateBlockOf(FALSE, <<>>, validator)
    \/ \E transactions \in {<<>>, <<ForeignTx("Balthasar-001")>>} :
           CreateBlockOf(TRUE, transactions, NoValidator)

\* add_block putting the block in front of the chain
add_block_in_front(c, pool, pending, block) ==
    IF ~_validate_block(c, block)
    THEN [chain |-> c, pool |-> pool, pending |-> pending, ok |-> FALSE]
    ELSE LET pp == RemoveFromPool([pool |-> pool, pending |-> pending],
                                  block.transactions, 1)
         IN  [chain |-> <<block>> \o c, pool |-> pp.pool, pending |-> pp.pending,
              ok |-> TRUE]

\* Blockchain.add_block on the ledger (c, pool, pending): what it returns
\* and the ledger it leaves
add_block(c, pool, pending, block) ==
    IF ~_validate_block(c, block)
    THEN [chain |-> c, pool |-> pool, pending |-> pending, ok |-> FALSE]
    ELSE LET pp == RemoveFromPool([pool |-> pool, pending |-> pending],
                                  block.transactions, 1)
         IN  [chain |-> Append(c, block), pool |-> pp.pool, pending |-> pp.pending,
              ok |-> TRUE]

AddBlockOf(block) ==
    LET r == add_block(chain, transaction_pool, pending_transactions, block)
    IN  /\ chain' = r.chain
        /\ transaction_pool' = r.pool
        /\ pending_transactions' = r.pending
        /\ last' = Call("add_block", block, r.ok, FALSE)
        /\ UNCHANGED contractVars
        /\ UNCHANGED <<instance_id, program, snapshot, loop, now,
                       consensusVars, held, chain_file, created, tampered>>

AddBlock ==
    /\ Len(chain) < MaxChain
    /\ \E block \in LedgerCandidates \cup ({held} \ {NoBlock}) :
           AddBlockOf(block)

\* Blockchain.verify_integrity
VerifyIntegrity ==
    /\ last' = Call("verify_integrity", NoBlock, verify_integrity(chain), FALSE)
    /\ UNCHANGED contractVars
    /\ UNCHANGED <<instance_id, program, snapshot, loop, now, ledgerVars,
                   consensusVars, held, chain_file, created, tampered>>

-----------------------------------------------------------------------------
(* Consensus operations *)

\* ProofOfAuthority.add_validator
AddValidatorOf(id, name) ==
    /\ IF Position(validators, id) # 0
       THEN /\ validators' = validators
            /\ last' = [Call("add_validator", NoBlock, FALSE, FALSE)
                        EXCEPT !.validator = id]
       ELSE /\ validators' = Append(validators, Validator(id, name))
            /\ last' = [Call("add_validator", NoBlock, TRUE, FALSE)
                        EXCEPT !.validator = id]
    /\ UNCHANGED contractVars
    /\ UNCHANGED <<instance_id, program, snapshot, loop, now, ledgerVars,
                   current_validator_index, held, chain_file, created,
                   tampered>>

AddValidator ==
    \/ AddValidatorOf("TEST-002", "TestNode")
    \/ AddValidatorOf("Melchior-001", "Melchior")

\* remove_validator that deletes the validator from the registry
RemoveValidatorOf_delete(id) ==
    /\ validators' = SelectSeq(validators, LAMBDA v : v.instance_id # id)
    /\ last' = [Call("remove_validator", NoBlock,
                     Position(validators, id) # 0, FALSE)
                EXCEPT !.validator = id]
    /\ UNCHANGED contractVars
    /\ UNCHANGED <<instance_id, program, snapshot, loop, now, ledgerVars,
                   current_validator_index, held, chain_file, created,
                   tampered>>

\* ProofOfAuthority.remove_validator
RemoveValidatorOf(id) ==
    LET k == Position(validators, id)
    IN  /\ IF k = 0
           THEN /\ validators' = validators
                /\ last' = [Call("remove_validator", NoBlock, FALSE, FALSE)
                            EXCEPT !.validator = id]
           ELSE /\ validators' = [validators EXCEPT ![k].is_active = FALSE]
                /\ last' = [Call("remove_validator", NoBlock, TRUE, FALSE)
                            EXCEPT !.validator = id]
        /\ UNCHANGED contractVars
        /\ UNCHANGED <<instance_id, program, snapshot, loop, now, ledgerVars,
                       current_validator_index, held, chain_file, created,
                       tampered>>

RemoveValidator ==
    \E id \in {"Melchior-001", "Balthasar-001", "Intruder-999"} :
        RemoveValidatorOf(id)

\* create_block that leaves the pointer where it is
consensus_create_block_same_turn(id) ==
    LET k == Position(validators, id)
        block == NewBlock(BlockTransactions(FALSE, <<>>), id)
    IN  IF ~can_create_block(id) \/ k = 0 \/ ~validators[k].is_active
        THEN [validators |-> validators, block |-> NoBlock,
              index |-> current_validator_index, pending |-> pending_transactions]
        ELSE [validators |-> [validators EXCEPT
                                 ![k].last_block_time = block.timestamp_micros],
              block |-> block,
              index |-> current_validator_index,
              pending |-> PendingAfterCreate(FALSE)]

\* ProofOfAuthority.create_block(id): the block it returns (NoBlock for None),
\* the pending list, the registry and the pointer it leaves
consensus_create_block(id) ==
    LET k == Position(validators, id)
        block == NewBlock(BlockTransactions(FALSE, <<>>), id)
    IN  IF ~can_create_block(id) \/ k = 0 \/ ~validators[k].is_active
        THEN [validators |-> validators, block |-> NoBlock,
              index |-> current_validator_index, pending |-> pending_transactions]
        ELSE [validators |-> [validators EXCEPT
                                 ![k].last_block_time = block.timestamp_micros],
              block |-> block,
              index |-> current_validator_index + 1,
              pending |-> PendingAfterCreate(FALSE)]

ConsensusCreateBlockOf(id) ==
    LET r == consensus_create_block(id)
    IN  /\ pending_transactions' = r.pending
        /\ validators' = r.validators
        /\ current_validator_index' = r.index
        /\ held' = IF r.block = NoBlock THEN held ELSE r.block
        /\ last' = [Call("consensus_create_block", r.block,
                         r.block # NoBlock, FALSE)
                    EXCEPT !.validator = id]
        /\ UNCHANGED contractVars
        /\ UNCHANGED <<instance_id, program, snapshot, loop, now, chain,
                       transaction_pool, chain_file, created, tampered>>

ConsensusCreateBlock ==
    \E id \in {instance_id, "Balthasar-001"} : ConsensusCreateBlockOf(id)

\* handle_new_block without validate_block_authority
handle_new_block_no_authority(block) ==
    LET r == add_block(chain, transaction_pool, pending_transactions, block)
        k == Position(validators, block.validator)
    IN  IF r.ok
        THEN [chain |-> r.chain,
              validators |-> IF k = 0 THEN validators
                             ELSE [validators EXCEPT ![k].last_block_time =
                                       block.timestamp_micros],
              index |-> SyncedIndex(block),
              pool |-> r.pool, pending |-> r.pending, ok |-> TRUE]
        ELSE [chain |-> chain, validators |-> validators, index |-> current_validator_index,
              pool |-> transaction_pool, pending |-> pending_transactions,
              ok |-> FALSE]

\* ProofOfAuthority.handle_new_block: what it returns and the state it leaves
handle_new_block(block) ==
    LET r == add_block(chain, transaction_pool, pending_transactions, block)
        k == Position(validators, block.validator)
    IN  IF validate_block_authority(block) /\ r.ok
        THEN [chain |-> r.chain,
              validators |-> [validators EXCEPT
                                 ![k].last_block_time = block.timestamp_micros],
              index |-> SyncedIndex(block),
              pool |-> r.pool, pending |-> r.pending, ok |-> TRUE]
        ELSE [chain |-> chain, validators |-> validators, index |-> current_validator_index,
              pool |-> transaction_pool, pending |-> pending_transactions,
              ok |-> FALSE]

HandleNewBlockOf(block) ==
    LET r == handle_new_block(block)
    IN  /\ chain' = r.chain
        /\ transaction_pool' = r.pool
        /\ pending_transactions' = r.pending
        /\ validators' = r.validators
        /\ current_validator_index' = r.index
        /\ last' = Call("handle_new_block", block, r.ok, FALSE)
        /\ UNCHANGED contractVars
        /\ UNCHANGED <<instance_id, program, snapshot, loop, now, held,
                       chain_file, created, tampered>>

HandleNewBlock ==
    /\ Len(chain) < MaxChain
    /\ \E block \in Candidates \cup ({held} \ {NoBlock}) :
           HandleNewBlockOf(block)

-----------------------------------------------------------------------------
(* The scheduler loops: one iteration each *)

\* MemoryBlockchainServer._consensus_loop: the sealed block is only logged
ServerConsensusLoop ==
    /\ program = "server"
    /\ LET r == IF can_create_block(instance_id)
                THEN consensus_create_block(instance_id)
                ELSE [validators |-> validators, block |-> NoBlock,
                      index |-> current_validator_index,
                      pending |-> pending_transactions]
       IN  /\ pending_transactions' = r.pending
           /\ validators' = r.validators
           /\ current_validator_index' = r.index
           /\ last' = Call("server_loop", r.block, r.block # NoBlock, FALSE)
    /\ UNCHANGED contractVars
    /\ UNCHANGED <<instance_id, program, snapshot, loop, now, chain,
                   transaction_pool, held, chain_file, created, tampered>>

\* BlockchainNode._save_chain: [block.to_dict() for block in chain]
SavedChain(c) == c

\* BlockchainNode.consensus_loop: the sealed block is added to the chain and
\* the chain saved at every tenth block
NodeConsensusLoop ==
    /\ program = "node"
    /\ Len(chain) < MaxChain
    /\ LET r == IF can_create_block(instance_id)
                THEN consensus_create_block(instance_id)
                ELSE [validators |-> validators, block |-> NoBlock,
                      index |-> current_validator_index,
                      pending |-> pending_transactions]
           a == IF r.block = NoBlock
                THEN [chain |-> chain, pool |-> transaction_pool, pending |-> r.pending,
                      ok |-> FALSE]
                ELSE add_block(chain, transaction_pool, r.pending, r.block)
       IN  /\ chain' = a.chain
           /\ transaction_pool' = a.pool
           /\ pending_transactions' = a.pending
           /\ validators' = r.validators
           /\ current_validator_index' = r.index
           /\ chain_file' = IF a.ok /\ r.block.index % 10 = 0
                            THEN SavedChain(a.chain) ELSE chain_file
           /\ last' = Call("node_loop", r.block, a.ok, FALSE)
    /\ UNCHANGED contractVars
    /\ UNCHANGED <<instance_id, program, snapshot, loop, now, held, created,
                   tampered>>

-----------------------------------------------------------------------------
(* The ledger alone: Blockchain's own calls in any order *)

InitLedger == Init /\ program = "node"

NextLedger ==
    \/ Tick
    \/ CreateTransaction
    \/ CreateBlock
    \/ AddBlock

SpecLedger == InitLedger /\ [][NextLedger]_vars

-----------------------------------------------------------------------------
(* Properties of the ledger *)

InChain(c, tx) ==
    \E i \in 1..Len(c) : \E j \in 1..Len(c[i].transactions) :
        c[i].transactions[j] = tx

InPool(pool, pending, tx) ==
    tx.tx_id \in DOMAIN pool \/ \E j \in 1..Len(pending) : pending[j] = tx

\* C1: whenever add_block is called with a block whose previous_hash is not
\* the head's block_hash, it returns false and the chain stays as it was.
C1_BadPreviousHashRejected ==
    [][(/\ last'.op = "add_block"
        /\ last'.block.previous_hash # LatestBlock(chain).block_hash)
       => (~last'.ok /\ chain' = chain)]_vars

\* C4: every transaction create_transaction returned is in the pending list
\* or in a block of the chain.
C4_NoTransactionLost ==
    \A i \in 1..Len(created) :
        \/ \E j \in 1..Len(pending_transactions) :
               pending_transactions[j] = created[i]
        \/ InChain(chain, created[i])

\* C5: a block create_block built on the current head is accepted by
\* add_block: it returns true, the block becomes the new head of a chain one
\* longer, and none of its transactions stays in the pending list or the pool.
C5_CreatedBlockAccepted ==
    [][(/\ last'.op = "add_block"
        /\ held # NoBlock
        /\ last'.block = held
        /\ held.index = Len(chain)
        /\ held.previous_hash = LatestBlock(chain).block_hash)
       => (/\ last'.ok
           /\ chain' = Append(chain, held)
           /\ \A j \in 1..Len(held.transactions) :
                  ~InPool(transaction_pool', pending_transactions',
                          held.transactions[j]))]_vars

\* one of the checks of C8 fails for block against the head of c
FailsACheck(c, block) ==
    \/ block.index # LatestBlock(c).index + 1
    \/ block.block_hash # _calculate_hash(block)
    \/ block.merkle_root # _calculate_merkle_root(block.transactions)
    \/ \E j \in 1..Len(block.transactions) :
           block.transactions[j].data_hash
               # _calculate_data_hash(block.transactions[j])

\* C8: add_block with a block of index other than 0 that fails the index, the
\* block_hash, the merkle_root or a data_hash check returns false, raises
\* nothing and leaves chain, pending list and pool as they were.
C8_InvalidBlockRejected ==
    [][(/\ last'.op = "add_block"
        /\ last'.block.index # 0
        /\ FailsACheck(chain, last'.block))
       => (~last'.ok /\ ~last'.raised /\ UNCHANGED ledgerVars)]_vars

\* C8 witness: a block whose only fault is its merkle_root was rejected while
\* a transaction was pending
C8_Witness ==
    /\ last.op = "add_block"
    /\ ~last.ok
    /\ last.block.index = LatestBlock(chain).index + 1
    /\ last.block.previous_hash = LatestBlock(chain).block_hash
    /\ last.block.block_hash = _calculate_hash(last.block)
    /\ last.block.merkle_root # _calculate_merkle_root(last.block.transactions)
    /\ Len(pending_transactions) > 0

-----------------------------------------------------------------------------
(* Integrity: a chain grown by create_block / add_block rounds, then one    *)
(* stored field of one block overwritten, as the integrity test does        *)

BlockFields == {"index", "timestamp_micros", "previous_hash", "validator",
                "nonce", "merkle_root", "block_hash"}
TxFields == {"operation", "data", "timestamp_micros", "instance_id", "tx_id",
             "data_hash", "signature"}

\* block with one header field set to a value it did not have
TamperBlock(block, field) ==
    CASE field = "index" -> [block EXCEPT !.index = block.index + 1]
      [] field = "timestamp_micros" ->
             [block EXCEPT !.timestamp_micros = block.timestamp_micros + 1]
      [] field = "previous_hash" -> [block EXCEPT !.previous_hash = TamperedHash]
      [] field = "validator" -> [block EXCEPT !.validator = "Intruder-999"]
      [] field = "nonce" -> [block EXCEPT !.nonce = 999999]
      [] field = "merkle_root" -> [block EXCEPT !.merkle_root = TamperedHash]
      [] field = "block_hash" -> [block EXCEPT !.block_hash = TamperedHash]

\* tx with one field set to a value it did not have
TamperTx(tx, field) ==
    CASE field = "operation" -> [tx EXCEPT !.operation = "tampered"]
      [] field = "data" -> [tx EXCEPT !.data = [name |-> <<120>>]]
      [] field = "timestamp_micros" ->
             [tx EXCEPT !.timestamp_micros = tx.timestamp_micros + 1]
      [] field = "instance_id" -> [tx EXCEPT !.instance_id = "Intruder-999"]
      [] field = "tx_id" -> [tx EXCEPT !.tx_id[2] = "Intruder-999"]
      [] field = "data_hash" -> [tx EXCEPT !.data_hash = TamperedHash]
      [] field = "signature" -> [tx EXCEPT !.signature = TamperedHash]

\* blockchain.chain[i].<field> = <another value>
Tamper ==
    /\ ~tampered
    /\ \E i \in 1..Len(chain) :
           \/ \E field \in BlockFields :
                  chain' = [chain EXCEPT ![i] = TamperBlock(chain[i], field)]
           \/ /\ chain[i].index # 0
              /\ chain' = [chain EXCEPT ![i].index = 0]
           \/ \E j \in 1..Len(chain[i].transactions), field \in TxFields :
                  chain' = [chain EXCEPT ![i].transactions[j] =
                               TamperTx(chain[i].transactions[j], field)]
    /\ tampered' = TRUE
    /\ last' = Call("tamper", NoBlock, TRUE, FALSE)
    /\ UNCHANGED contractVars
    /\ UNCHANGED <<instance_id, program, snapshot, loop, now,
                   pending_transactions, transaction_pool, consensusVars,
                   held, chain_file, created>>

\* one round of the test: create_transaction, create_block(), add_block(block)
RoundCreateTransaction == ~tampered /\ CreateTransaction

RoundCreateBlock ==
    /\ ~tampered
    /\ Len(pending_transactions) > 0
    /\ CreateBlockOf(FALSE, <<>>, NoValidator)

RoundAddBlock ==
    /\ ~tampered
    /\ held # NoBlock
    /\ Len(chain) < MaxChain
    /\ AddBlockOf(held)

NextIntegrity ==
    \/ Tick
    \/ RoundCreateTransaction
    \/ RoundCreateBlock
    \/ RoundAddBlock
    \/ Tamper
    \/ VerifyIntegrity

SpecIntegrity == InitLedger /\ [][NextIntegrity]_vars

\* C2: after one or more rounds create_transaction, create_block(),
\* add_block(block), and nothing else done to the chain, verify_integrity()
\* returns true.
C2_IntegrityAfterValidAppends ==
    (last.op = "verify_integrity" /\ ~tampered /\ Len(chain) >= 2) => last.ok

\* C3: once a stored field of a block of the chain, the genesis included, was
\* changed, verify_integrity() returns false.
C3_TamperingDetected ==
    (last.op = "verify_integrity" /\ tampered) => ~last.ok

-----------------------------------------------------------------------------
(* Batching: enough pending transactions to exceed the cap of a block *)

\* as in the integrity test, the i-th transaction carries data {"index": i}
BatchCreateTransaction ==
    /\ Len(created) < MaxBatchTx
    /\ CreateTransactionOf("create_entity", [index |-> Len(created)], NoKey)

BatchAddBlock ==
    /\ held # NoBlock
    /\ Len(chain) < MaxChain
    /\ AddBlockOf(held)

\* create_block() and create_block([])
BatchCreateBlock ==
    \E given \in BOOLEAN : CreateBlockOf(given, <<>>, NoValidator)

NextBatch ==
    \/ BatchCreateTransaction
    \/ BatchCreateBlock
    \/ BatchAddBlock

SpecBatch == InitLedger /\ [][NextBatch]_vars

\* C6: create_block() without a transaction list takes the first min(10, n)
\* of the n pending transactions in their order, leaves the others pending in
\* their order, and builds the block with index = chain length and
\* previous_hash = the head's block_hash.
C6_BatchOfOldestPending ==
    [][(/\ last'.op = "create_block"
        /\ ~last'.given
        /\ Len(pending_transactions) > 0)
       => LET n == Len(pending_transactions)
              k == IF n < 10 THEN n ELSE 10
          IN  /\ last'.ok
              /\ Len(last'.block.transactions) = k
              /\ \A i \in 1..k :
                     last'.block.transactions[i] = pending_transactions[i]
              /\ Len(pending_transactions') = n - k
              /\ \A i \in 1..(n - k) :
                     pending_transactions'[i] = pending_transactions[k + i]
              /\ last'.block.index = Len(chain)
              /\ last'.block.previous_hash = LatestBlock(chain).block_hash]_vars

\* C6 witness: create_block() took ten transactions and left one pending
C6_Witness ==
    /\ last.op = "create_block"
    /\ ~last.given
    /\ last.ok
    /\ Len(last.block.transactions) = 10
    /\ Len(pending_transactions) = 1

\* C7: create_block raises when it has no transaction (nothing pending and no
\* list given, or an empty list given), and then chain, pending list and pool
\* are as they were.
C7_EmptyBlockRaises ==
    [][(/\ last'.op = "create_block"
        /\ \/ ~last'.given /\ Len(pending_transactions) = 0
           \/ last'.given /\ Len(last'.transactions) = 0)
       => (last'.raised /\ ~last'.ok /\ UNCHANGED ledgerVars)]_vars

\* C7 witness: create_block([]) raised while a transaction was pending
C7_Witness ==
    /\ last.op = "create_block"
    /\ last.raised
    /\ last.given
    /\ Len(pending_transactions) > 0

-----------------------------------------------------------------------------
(* Consensus: the registry, the pointer, received blocks and the loops *)

NextConsensus ==
    \/ Tick
    \/ CreateTransaction
    \/ AddValidator
    \/ RemoveValidator
    \/ ConsensusCreateBlock
    \/ HandleNewBlock
    \/ ServerConsensusLoop
    \/ NodeConsensusLoop

SpecConsensus == Init /\ [][NextConsensus]_vars

\* the validators before position k of the registry vs that are active
ActiveBefore(vs, k) == {i \in 1..(k - 1) : vs[i].is_active}

IsActive(vs, id) ==
    \E i \in 1..Len(vs) : vs[i].instance_id = id /\ vs[i].is_active

\* C10: handle_new_block appends the block only when its validator is
\* registered and active and add_block accepts it; when it returns false the
\* chain, the pointer and every last_block_time are as they were; when it
\* returns true the pointer is the producer's place in the active list plus 1.
C10_HandleNewBlock ==
    [][last'.op = "handle_new_block"
       => LET block == last'.block
          IN  /\ chain' # chain
                   => /\ IsActive(validators, block.validator)
                      /\ add_block(chain, transaction_pool,
                                   pending_transactions, block).ok
                      /\ chain' = Append(chain, block)
                      /\ last'.ok
              /\ ~last'.ok
                   => /\ chain' = chain
                      /\ current_validator_index' = current_validator_index
                      /\ \A i \in 1..Len(validators) :
                             validators'[i].last_block_time
                                 = validators[i].last_block_time
              /\ last'.ok
                   => current_validator_index' =
                          Cardinality(ActiveBefore(validators,
                              Position(validators, block.validator))) + 1]_vars

\* C10 witness: a block of Balthasar was appended while Melchior, registered
\* before it, was deactivated, so the pointer went to 1
C10_Witness ==
    /\ last.op = "handle_new_block"
    /\ last.ok
    /\ last.block.validator = "Balthasar-001"
    /\ ~validators[1].is_active
    /\ current_validator_index = 1

-----------------------------------------------------------------------------
(* Rotation: the registry, the pointer and the leader it selects *)

MaxPointer == 8        \* pointer values the rotation is examined at

RemoveAnyValidator ==
    \E i \in 1..Len(validators) : RemoveValidatorOf(validators[i].instance_id)

\* ProofOfAuthority.get_current_validator
GetCurrentValidator ==
    /\ last' = [Call("get_current_validator", NoBlock,
                     get_current_validator(validators,
                                           current_validator_index)
                         # NoValidator, FALSE)
                EXCEPT !.validator =
                    get_current_validator(validators, current_validator_index)]
    /\ UNCHANGED contractVars
    /\ UNCHANGED <<instance_id, program, snapshot, loop, now, ledgerVars,
                   consensusVars, held, chain_file, created, tampered>>

NextRotation ==
    \/ Tick
    \/ CreateTransaction
    \/ AddValidator
    \/ RemoveAnyValidator
    \/ ConsensusCreateBlock
    \/ GetCurrentValidator

SpecRotation == InitLedger /\ [][NextRotation]_vars

ActiveCount(vs) == Cardinality({i \in 1..Len(vs) : vs[i].is_active})

\* C9: with N active validators the leader at pointer p + N is the leader at
\* p, for N >= 2 the leaders at p and p + k differ for 0 < k < N, every
\* leader is an active validator, and get_current_validator() is None exactly
\* when no validator is active.
C9_RoundRobin ==
    LET N == ActiveCount(validators)
        Leader(p) == get_current_validator(validators, p)
    IN  /\ \A p \in 0..MaxPointer :
               /\ (Leader(p) = NoValidator) <=> (N = 0)
               /\ N >= 1 => /\ Leader(p + N) = Leader(p)
                            /\ IsActive(validators, Leader(p))
               /\ \A k \in 1..(N - 1) : Leader(p + k) # Leader(p)
        /\ last.op = "get_current_validator"
               => /\ (last.validator = NoValidator) <=> (N = 0)
                  /\ last.validator = Leader(current_validator_index)
                  /\ N >= 1 => last.validator = Leader(current_validator_index + N)

\* C9 witness: the leader was read after the pointer had advanced and a
\* validator had been deactivated, two or more staying active
C9_Witness ==
    /\ last.op = "get_current_validator"
    /\ current_validator_index >= 1
    /\ ActiveCount(validators) >= 2
    /\ ActiveCount(validators) < Len(validators)

\* C9 witness of the other case: the leader was read with no validator active
C9_WitnessNone ==
    /\ last.op = "get_current_validator"
    /\ ActiveCount(validators) = 0
    /\ last.validator = NoValidator

\* C11: the registered ids never shrink and keep their insertion order;
\* remove_validator changes nothing but the is_active flag of the validator it
\* names, which it sets to false; an inactive validator is never the one
\* get_current_validator returns, and is_my_turn and can_create_block are
\* false for it.
C11_ValidatorsNeverForgotten ==
    /\ [](\A i \in 1..Len(validators) :
             ~validators[i].is_active
                 => /\ get_current_validator(validators,
                                             current_validator_index)
                           # validators[i].instance_id
                    /\ ~is_my_turn(validators[i].instance_id)
                    /\ ~can_create_block(validators[i].instance_id))
    /\ [][/\ Len(validators') >= Len(validators)
          /\ \A i \in 1..Len(validators) :
                 validators'[i].instance_id = validators[i].instance_id
          /\ last'.op = "remove_validator"
                 => /\ Len(validators') = Len(validators)
                    /\ \A i \in 1..Len(validators) :
                           IF validators[i].instance_id = last'.validator
                           THEN validators'[i] =
                                    [validators[i] EXCEPT !.is_active = FALSE]
                           ELSE validators'[i] = validators[i]]_vars

\* C11 witness: Melchior, the leader at pointer 0, was deactivated in a
\* registry of five while a transaction is pending and block_time has passed
C11_Witness ==
    /\ last.op = "remove_validator"
    /\ last.ok
    /\ last.validator = "Melchior-001"
    /\ ~validators[1].is_active
    /\ Len(validators) = 5
    /\ current_validator_index = 0
    /\ Len(pending_transactions) > 0
    /\ ~(now - LatestBlock(chain).timestamp_micros < block_time * 1000)

-----------------------------------------------------------------------------
(* MemoryLockContract (contracts.py) *)

lock_duration_ms == 30000

MaxSleeps == 3         \* contract clock: now <= (MaxSleeps + 1) * TickMicros

NoName == ""           \* an entity_name that is missing or empty
Entities == {"E", "F"}
Callers == {"A", "B"}
DurationsMs == {1000, 2000}

\* _acquire_lock that installs the lock without looking at an existing one
_acquire_lock_no_check(lk, params, caller, current_time) ==
    LET entity_name == Get(params, "entity_name", NoName)
        duration_ms == Get(params, "duration_ms", lock_duration_ms)
        expires == current_time + (duration_ms * 1000)
    IN  IF entity_name = NoName
        THEN [locks |-> lk,
              result |-> [success |-> FALSE, error |-> "entity_name required"]]
        ELSE [locks |-> Put(lk, entity_name,
                            [expires |-> expires, holder |-> caller,
                             acquired |-> current_time]),
              result |-> [entity_name |-> entity_name, expires |-> expires,
                          success |-> TRUE, holder |-> caller]]

\* MemoryLockContract._acquire_lock: the map it returns and the lock table it
\* leaves, from the lock table lk at clock reading current_time
_acquire_lock(lk, params, caller, current_time) ==
    LET entity_name == Get(params, "entity_name", NoName)
        duration_ms == Get(params, "duration_ms", lock_duration_ms)
        expires == current_time + (duration_ms * 1000)
    IN  IF entity_name = NoName
        THEN [locks |-> lk,
              result |-> [success |-> FALSE, error |-> "entity_name required"]]
        ELSE IF Has(lk, entity_name) /\ lk[entity_name].expires > current_time
        THEN [locks |-> lk,
              result |-> [expires |-> lk[entity_name].expires, success |-> FALSE,
                          error |-> "Entity already locked",
                          holder |-> lk[entity_name].holder]]
        ELSE [locks |-> Put(lk, entity_name,
                            [expires |-> expires, holder |-> caller,
                             acquired |-> current_time]),
              result |-> [entity_name |-> entity_name, expires |-> expires,
                          success |-> TRUE, holder |-> caller]]

\* MemoryLockContract._release_lock
_release_lock(lk, params, caller) ==
    LET entity_name == Get(params, "entity_name", NoName)
    IN  IF entity_name = NoName
        THEN [locks |-> lk,
              result |-> [success |-> FALSE, error |-> "entity_name required"]]
        ELSE IF ~Has(lk, entity_name)
        THEN [locks |-> lk,
              result |-> [success |-> FALSE, error |-> "No lock found"]]
        ELSE IF lk[entity_name].holder # caller
        THEN [locks |-> lk,
              result |-> [success |-> FALSE,
                          error |-> "Only lock holder can release"]]
        ELSE [locks |-> Del(lk, entity_name),
              result |-> [entity_name |-> entity_name, success |-> TRUE]]

\* _check_lock that keeps a lock at the clock reading it expires at
_check_lock_strict(lk, params, current_time) ==
    LET entity_name == Get(params, "entity_name", NoName)
    IN  IF entity_name = NoName
        THEN [locks |-> lk,
              result |-> [success |-> FALSE, error |-> "entity_name required"]]
        ELSE IF ~Has(lk, entity_name)
        THEN [locks |-> lk, result |-> [success |-> TRUE, locked |-> FALSE]]
        ELSE IF lk[entity_name].expires < current_time
        THEN [locks |-> Del(lk, entity_name),
              result |-> [success |-> TRUE, locked |-> FALSE]]
        ELSE [locks |-> lk,
              result |-> [expires |-> lk[entity_name].expires, success |-> TRUE,
                          holder |-> lk[entity_name].holder,
                          locked |-> TRUE]]

\* MemoryLockContract._check_lock
_check_lock(lk, params, current_time) ==
    LET entity_name == Get(params, "entity_name", NoName)
    IN  IF entity_name = NoName
        THEN [locks |-> lk,
              result |-> [success |-> FALSE, error |-> "entity_name required"]]
        ELSE IF ~Has(lk, entity_name)
        THEN [locks |-> lk, result |-> [success |-> TRUE, locked |-> FALSE]]
        ELSE IF lk[entity_name].expires <= current_time
        THEN [locks |-> Del(lk, entity_name),
              result |-> [success |-> TRUE, locked |-> FALSE]]
        ELSE [locks |-> lk,
              result |-> [expires |-> lk[entity_name].expires, success |-> TRUE,
                          holder |-> lk[entity_name].holder,
                          locked |-> TRUE]]

\* _extend_lock that extends the lock for any caller
_extend_lock_any_caller(lk, params, caller) ==
    LET entity_name == Get(params, "entity_name", NoName)
        extension_ms == Get(params, "extension_ms", lock_duration_ms)
    IN  IF entity_name = NoName
        THEN [locks |-> lk,
              result |-> [success |-> FALSE, error |-> "entity_name required"]]
        ELSE IF ~Has(lk, entity_name)
        THEN [locks |-> lk,
              result |-> [success |-> FALSE, error |-> "No lock found"]]
        ELSE [locks |-> [lk EXCEPT ![entity_name].expires =
                                       @ + extension_ms * 1000],
              result |-> [entity_name |-> entity_name, success |-> TRUE,
                          new_expires |-> lk[entity_name].expires
                                              + extension_ms * 1000]]

\* MemoryLockContract._extend_lock
_extend_lock(lk, params, caller) ==
    LET entity_name == Get(params, "entity_name", NoName)
        extension_ms == Get(params, "extension_ms", lock_duration_ms)
    IN  IF entity_name = NoName
        THEN [locks |-> lk,
              result |-> [success |-> FALSE, error |-> "entity_name required"]]
        ELSE IF ~Has(lk, entity_name)
        THEN [locks |-> lk,
              result |-> [success |-> FALSE, error |-> "No lock found"]]
        ELSE IF lk[entity_name].holder # caller
        THEN [locks |-> lk,
              result |-> [success |-> FALSE,
                          error |-> "Only lock holder can extend"]]
        ELSE [locks |-> [lk EXCEPT ![entity_name].expires =
                                       @ + extension_ms * 1000],
              result |-> [entity_name |-> entity_name, success |-> TRUE,
                          new_expires |-> lk[entity_name].expires
                                              + extension_ms * 1000]]

\* the record of a contract call that returned the map result
ContractCall(function, params, caller, result, before) ==
    [Call(function, NoBlock, result.success, FALSE)
     EXCEPT !.params = params, !.caller = caller, !.result = result,
            !.before = before]

\* time passes between two contract calls (time.sleep in the tests)
Sleep ==
    /\ now < (MaxSleeps + 1) * TickMicros
    /\ now' = now + TickMicros
    /\ last' = Call("sleep", NoBlock, TRUE, FALSE)
    /\ UNCHANGED contractVars
    /\ UNCHANGED <<instance_id, program, snapshot, loop, ledgerVars,
                   consensusVars, held, chain_file, created, tampered>>

\* MemoryLockContract.execute(function, params, caller) returning r
LockExecute(function, params, caller, r) ==
    /\ locks' = r.locks
    /\ last' = ContractCall(function, params, caller, r.result, locks)
    /\ UNCHANGED <<resourceVars, workflowVars>>
    /\ UNCHANGED <<instance_id, program, snapshot, loop, now, ledgerVars,
                   consensusVars, held, chain_file, created, tampered>>

AcquireParams ==
    {[entity_name |-> e] : e \in Entities}
        \cup {[entity_name |-> e, duration_ms |-> d] :
                  e \in Entities, d \in DurationsMs}
        \cup {[duration_ms |-> d] : d \in DurationsMs}

NameParams == {[entity_name |-> e] : e \in Entities \cup {NoName}}

ExtendParams ==
    NameParams \cup {[entity_name |-> e, extension_ms |-> 1000] : e \in Entities}

AcquireLockOf(params, caller) ==
    LockExecute("acquire_lock", params, caller,
                _acquire_lock(locks, params, caller, now))

AcquireLock ==
    \E params \in AcquireParams, caller \in Callers :
        AcquireLockOf(params, caller)

ReleaseLockOf(params, caller) ==
    LockExecute("release_lock", params, caller,
                _release_lock(locks, params, caller))

ReleaseLock ==
    \E params \in NameParams, caller \in Callers :
        ReleaseLockOf(params, caller)

CheckLockOf(params, caller) ==
    LockExecute("check_lock", params, caller, _check_lock(locks, params, now))

\* _check_lock takes no caller
CheckLock == \E params \in NameParams : CheckLockOf(params, "A")

\* extend_lock, called while the lock expires within the clock's range
ExtendLockOf(params, caller) ==
    /\ Has(locks, Get(params, "entity_name", NoName))
           => locks[params.entity_name].expires <= (MaxSleeps + 1) * TickMicros
    /\ LockExecute("extend_lock", params, caller,
                   _extend_lock(locks, params, caller))

ExtendLock ==
    \E params \in ExtendParams, caller \in Callers :
        ExtendLockOf(params, caller)

NextLock ==
    \/ Sleep
    \/ AcquireLock
    \/ ReleaseLock
    \/ CheckLock
    \/ ExtendLock

SpecLock == InitLedger /\ [][NextLock]_vars

\* the entity a contract call names, NoName when it names none
NamedEntity(call) == Get(call.params, "entity_name", NoName)

\* C12: while an entity's lock is unexpired (now < expires) every acquire_lock
\* on it, by any caller, fails with 'Entity already locked', reports the
\* lock's holder and leaves the lock table unchanged; an acquire_lock on an
\* entity without a lock (never locked, or released by its holder) succeeds
\* and makes the caller the holder.
C12_LockMutualExclusion ==
    [][last'.op = "acquire_lock" /\ NamedEntity(last') # NoName
       => LET e == NamedEntity(last')
          IN  /\ (Has(locks, e) /\ now < locks[e].expires)
                   => /\ ~last'.ok
                      /\ last'.result.error = "Entity already locked"
                      /\ last'.result.holder = locks[e].holder
                      /\ locks' = locks
              /\ ~Has(locks, e)
                   => /\ last'.ok
                      /\ last'.result.holder = last'.caller
                      /\ Has(locks', e)
                      /\ locks'[e].holder = last'.caller
                      /\ locks'[e].acquired = now
                      /\ \A f \in DOMAIN locks : locks'[f] = locks[f]]_vars

\* C12 witness: B's acquire_lock was refused because A holds the unexpired lock
C12_Witness ==
    /\ last.op = "acquire_lock"
    /\ ~last.ok
    /\ last.caller = "B"
    /\ last.result.error = "Entity already locked"
    /\ last.result.holder = "A"
    /\ now < locks[NamedEntity(last)].expires

\* C13: check_lock on a lock with now >= expires reports locked = false and
\* removes the entry, and acquire_lock on it succeeds for any caller; with
\* now < expires check_lock reports locked = true with the holder and keeps
\* the entry; at the clock reading expires itself check_lock and acquire_lock
\* both treat the lock as expired, one microsecond earlier both as held.
C13_LockExpiry ==
    /\ [](\A e \in DOMAIN locks, c \in Callers :
             LET params == [entity_name |-> e]
                 t == locks[e].expires
             IN  /\ ~_check_lock(locks, params, t).result.locked
                 /\ _acquire_lock(locks, params, c, t).result.success
                 /\ _check_lock(locks, params, t - 1).result.locked
                 /\ ~_acquire_lock(locks, params, c, t - 1).result.success)
    /\ [][LET e == NamedEntity(last')
          IN  /\ (last'.op = "check_lock" /\ Has(locks, e))
                   => IF now >= locks[e].expires
                      THEN /\ last'.ok
                           /\ ~last'.result.locked
                           /\ ~Has(locks', e)
                      ELSE /\ last'.ok
                           /\ last'.result.locked
                           /\ last'.result.holder = locks[e].holder
                           /\ locks' = locks
              /\ (last'.op = "acquire_lock" /\ Has(locks, e)
                      /\ now >= locks[e].expires)
                   => /\ last'.ok
                      /\ locks'[e].holder = last'.caller]_vars

\* C13 witness: check_lock found a lock at the very clock reading it expires
\* at, reported it unlocked and removed it
C13_Witness ==
    /\ last.op = "check_lock"
    /\ Has(last.before, NamedEntity(last))
    /\ last.before[NamedEntity(last)].expires = now
    /\ ~last.result.locked
    /\ ~Has(locks, NamedEntity(last))

\* C14: release_lock and extend_lock on a locked entity succeed exactly when
\* the caller is the holder; the holder's release removes the entry, the
\* holder's extend adds extension_ms * 1000 to expires and keeps holder and
\* acquired; any other caller's call fails and leaves the lock table unchanged.
C14_OnlyHolderReleasesOrExtends ==
    [][(last'.op \in {"release_lock", "extend_lock"}
           /\ Has(locks, NamedEntity(last')))
       => LET e == NamedEntity(last')
              extension_ms == Get(last'.params, "extension_ms", 30000)
          IN  IF last'.caller # locks[e].holder
              THEN ~last'.ok /\ locks' = locks
              ELSE /\ last'.ok
                   /\ \A f \in DOMAIN locks \ {e} :
                          Has(locks', f) /\ locks'[f] = locks[f]
                   /\ last'.op = "release_lock" => ~Has(locks', e)
                   /\ last'.op = "extend_lock"
                        => /\ DOMAIN locks' = DOMAIN locks
                           /\ locks'[e].expires
                                  = locks[e].expires + extension_ms * 1000
                           /\ locks'[e].holder = locks[e].holder
                           /\ locks'[e].acquired = locks[e].acquired]_vars

\* C14 witness: B asked to extend the lock A holds and was refused
C14_Witness ==
    /\ last.op = "extend_lock"
    /\ ~last.ok
    /\ last.result.error = "Only lock holder can extend"
    /\ last.caller = "B"
    /\ locks[NamedEntity(last)].holder = "A"

-----------------------------------------------------------------------------
(* ResourceAllocationContract (contracts.py) *)

limits == [total_cpu |-> 400, total_memory |-> 16384, total_storage |-> 102400]

NoUsage == [cpu |-> 0, memory |-> 0, storage |-> 0]

ResourceCallers == {"A", "B", "C"}

\* the params of the request_resources calls
ResourceRequests ==
    {[cpu |-> 50, memory |-> 1024, storage |-> 5120],
     [cpu |-> 100, memory |-> 2048, storage |-> 10240],
     [cpu |-> 300, memory |-> 8192, storage |-> 51200],
     [cpu |-> 300],
     [cpu |-> 350],
     [memory |-> 16384],
     [storage |-> 60000]}

\* the quantities a request_resources call asks for
Requested(params) ==
    [cpu |-> Get(params, "cpu", 0), memory |-> Get(params, "memory", 0),
     storage |-> Get(params, "storage", 0)]

\* limits["total_*"] - used[*]
Available(u) ==
    [cpu |-> limits.total_cpu - u.cpu,
     memory |-> limits.total_memory - u.memory,
     storage |-> limits.total_storage - u.storage]

\* _request_resources that adds a re-request to the caller's old allocation
_request_resources_add(allocs, u, params, caller, current_time) ==
    LET new == Requested(params)
    IN  IF \/ u.cpu + new.cpu > limits.total_cpu
           \/ u.memory + new.memory > limits.total_memory
           \/ u.storage + new.storage > limits.total_storage
        THEN [allocations |-> allocs, used |-> u,
              result |-> [success |-> FALSE, error |-> "Insufficient resources",
                          available |-> Available(u)]]
        ELSE LET allocation == [cpu |-> new.cpu, memory |-> new.memory,
                                storage |-> new.storage,
                                allocated_at |-> current_time]
             IN  [allocations |-> Put(allocs, caller, allocation),
                  used |-> [cpu |-> u.cpu + new.cpu,
                            memory |-> u.memory + new.memory,
                            storage |-> u.storage + new.storage],
                  result |-> [success |-> TRUE, allocation |-> allocation]]

\* _request_resources that reports what would be available after the request
_request_resources_available_after(allocs, u, params, caller, current_time) ==
    LET new == Requested(params)
        old == IF Has(allocs, caller) THEN allocs[caller] ELSE NoUsage
    IN  IF \/ u.cpu + new.cpu > limits.total_cpu
           \/ u.memory + new.memory > limits.total_memory
           \/ u.storage + new.storage > limits.total_storage
        THEN [allocations |-> allocs, used |-> u,
              result |-> [success |-> FALSE, error |-> "Insufficient resources",
                          available |-> [cpu |-> Available(u).cpu - new.cpu,
                                         memory |-> Available(u).memory
                                                        - new.memory,
                                         storage |-> Available(u).storage
                                                         - new.storage]]]
        ELSE LET allocation == [cpu |-> new.cpu, memory |-> new.memory,
                                storage |-> new.storage,
                                allocated_at |-> current_time]
             IN  [allocations |-> Put(allocs, caller, allocation),
                  used |-> [cpu |-> u.cpu - old.cpu + new.cpu,
                            memory |-> u.memory - old.memory + new.memory,
                            storage |-> u.storage - old.storage + new.storage],
                  result |-> [success |-> TRUE, allocation |-> allocation]]

\* ResourceAllocationContract._request_resources: the map it returns and the
\* allocations and used counters it leaves; the capacity test (lines 245-247)
\* comes before the caller's old allocation is subtracted (lines 261-266)
_request_resources(allocs, u, params, caller, current_time) ==
    LET new == Requested(params)
        old == IF Has(allocs, caller) THEN allocs[caller] ELSE NoUsage
    IN  IF \/ u.cpu + new.cpu > limits.total_cpu
           \/ u.memory + new.memory > limits.total_memory
           \/ u.storage + new.storage > limits.total_storage
        THEN [allocations |-> allocs, used |-> u,
              result |-> [success |-> FALSE, error |-> "Insufficient resources",
                          available |-> Available(u)]]
        ELSE LET allocation == [cpu |-> new.cpu, memory |-> new.memory,
                                storage |-> new.storage,
                                allocated_at |-> current_time]
             IN  [allocations |-> Put(allocs, caller, allocation),
                  used |-> [cpu |-> u.cpu - old.cpu + new.cpu,
                            memory |-> u.memory - old.memory + new.memory,
                            storage |-> u.storage - old.storage + new.storage],
                  result |-> [success |-> TRUE, allocation |-> allocation]]

\* ResourceAllocationContract._release_resources
_release_resources(allocs, u, caller) ==
    IF ~Has(allocs, caller)
    THEN [allocations |-> allocs,
          used |-> u, result |-> [success |-> FALSE, error |-> "No allocation found"]]
    ELSE [allocations |-> Del(allocs, caller),
          used |-> [cpu |-> u.cpu - allocs[caller].cpu,
                    memory |-> u.memory - allocs[caller].memory,
                    storage |-> u.storage - allocs[caller].storage],
          result |-> [success |-> TRUE]]

\* ResourceAllocationContract._get_allocation; None is NoUsage
_get_allocation(allocs, params) ==
    LET id == Get(params, "instance_id", NoName)
    IN  IF id = NoName
        THEN [success |-> FALSE, error |-> "instance_id required"]
        ELSE [success |-> TRUE, allocation |-> Get(allocs, id, NoUsage)]

\* ResourceAllocationContract._get_usage
_get_usage(u) ==
    [used |-> u, success |-> TRUE, limits |-> limits, available |-> Available(u)]

\* ResourceAllocationContract.execute(function, params, caller) returning r
ResourceExecute(function, params, caller, r) ==
    /\ allocations' = r.allocations
    /\ used' = r.used
    /\ last' = ContractCall(function, params, caller, r.result,
                            [allocations |-> allocations, used |-> used])
    /\ UNCHANGED <<lockVars, workflowVars>>
    /\ UNCHANGED <<instance_id, program, snapshot, loop, now, ledgerVars,
                   consensusVars, held, chain_file, created, tampered>>

RequestResourcesOf(params, caller) ==
    ResourceExecute("request_resources", params, caller,
        _request_resources(allocations, used, params, caller, now))

RequestResources ==
    \E params \in ResourceRequests, caller \in ResourceCallers :
        RequestResourcesOf(params, caller)

ReleaseResourcesOf(caller) ==
    ResourceExecute("release_resources", <<>>, caller,
        _release_resources(allocations, used, caller))

ReleaseResources == \E caller \in ResourceCallers : ReleaseResourcesOf(caller)

GetAllocation ==
    \E id \in ResourceCallers \cup {NoName}, caller \in ResourceCallers :
        ResourceExecute("get_allocation", [instance_id |-> id], caller,
            [allocations |-> allocations,
             used |-> used, result |-> _get_allocation(allocations, [instance_id |-> id])])

GetUsage ==
    \E caller \in ResourceCallers :
        ResourceExecute("get_usage", <<>>, caller,
            [allocations |-> allocations, used |-> used,
             result |-> _get_usage(used)])

NextResource ==
    \/ RequestResources
    \/ ReleaseResources
    \/ GetAllocation
    \/ GetUsage

SpecResource == InitLedger /\ [][NextResource]_vars

Dimensions == {"cpu", "memory", "storage"}

\* the limit of dimension d
Limit(d) ==
    IF d = "cpu" THEN limits.total_cpu
    ELSE IF d = "memory" THEN limits.total_memory
    ELSE limits.total_storage

\* the sum of allocs[caller][d] over the callers in keys
RECURSIVE SumAllocated(_, _, _)
SumAllocated(allocs, keys, d) ==
    IF keys = {} THEN 0
    ELSE LET c == CHOOSE k \in keys : TRUE
         IN  allocs[c][d] + SumAllocated(allocs, keys \ {c}, d)

\* what the caller holds in dimension d, 0 without an allocation
Held(allocs, caller, d) == IF Has(allocs, caller) THEN allocs[caller][d] ELSE 0

\* would the request fit once the caller's old allocation is given back
FitsAfterReplace(allocs, u, params, caller) ==
    \A d \in Dimensions :
        u[d] - Held(allocs, caller, d) + Requested(params)[d] <= Limit(d)

\* C15: request_resources succeeds exactly when, in every dimension,
\* used - old + new <= limit, old being the caller's prior allocation.
C15_RequestReplacesAtomically ==
    [][last'.op = "request_resources"
       => (last'.ok <=> FitsAfterReplace(allocations, used, last'.params,
                                         last'.caller))]_vars

\* C16: used[d] is the sum of the callers' allocations in every dimension; a
\* successful request_resources leaves the caller with exactly the requested
\* allocation and the other callers' allocations as they were;
\* release_resources removes exactly the caller's allocation.
C16_ResourceAccounting ==
    /\ [](\A d \in Dimensions :
             used[d] = SumAllocated(allocations, DOMAIN allocations, d))
    /\ [][/\ (last'.op = "request_resources" /\ last'.ok)
               => /\ DOMAIN allocations'
                         = DOMAIN allocations \cup {last'.caller}
                  /\ \A d \in Dimensions :
                         /\ allocations'[last'.caller][d]
                                = Requested(last'.params)[d]
                         /\ used'[d] = used[d]
                                - Held(allocations, last'.caller, d)
                                + Requested(last'.params)[d]
                  /\ \A c \in DOMAIN allocations \ {last'.caller} :
                         allocations'[c] = allocations[c]
          /\ (last'.op = "release_resources" /\ last'.ok)
               => /\ DOMAIN allocations'
                         = DOMAIN allocations \ {last'.caller}
                  /\ \A c \in DOMAIN allocations' :
                         allocations'[c] = allocations[c]
                  /\ \A d \in Dimensions :
                         used'[d] = used[d]
                                - Held(allocations, last'.caller, d)]_vars

\* C16 witness: A, holding cpu 50, re-requested cpu 100 while B holds an
\* allocation too, and used.cpu is B's cpu plus 100
C16_Witness ==
    /\ last.op = "request_resources"
    /\ last.ok
    /\ last.caller = "A"
    /\ Has(last.before.allocations, "A")
    /\ last.before.allocations["A"].cpu = 50
    /\ allocations["A"].cpu = 100
    /\ Has(allocations, "B")
    /\ used.cpu = allocations["B"].cpu + 100

-----------------------------------------------------------------------------
(* WorkflowAutomationContract (contracts.py) *)

NoId == <<>>           \* an execution_id that is missing

\* f"{workflow_id}-{int(time.time() * 1_000_000)}": the decimal clock reading
\* holds no '-', so the string determines the pair and the pair the string
ExecutionId(workflow_id, current_time) == <<workflow_id, current_time>>

\* _register_workflow that accepts a workflow without steps
_register_workflow_unvalidated(wf, ex, params, caller, current_time) ==
    LET workflow_id == Get(params, "workflow_id", NoName)
        steps == Get(params, "steps", <<>>)
        triggers == Get(params, "triggers", <<>>)
    IN  IF workflow_id = NoName
        THEN [workflows |-> wf, executions |-> ex,
              result |-> [success |-> FALSE,
                          error |-> "workflow_id and steps required"]]
        ELSE [workflows |-> Put(wf, workflow_id,
                                [is_active |-> TRUE, steps |-> steps,
                                 triggers |-> triggers,
                                 owner |-> caller,
                                 created_at |-> current_time]),
              executions |-> ex,
              result |-> [success |-> TRUE, workflow_id |-> workflow_id]]

\* WorkflowAutomationContract._register_workflow
_register_workflow(wf, ex, params, caller, current_time) ==
    LET workflow_id == Get(params, "workflow_id", NoName)
        steps == Get(params, "steps", <<>>)
        triggers == Get(params, "triggers", <<>>)
    IN  IF workflow_id = NoName \/ steps = <<>>
        THEN [workflows |-> wf, executions |-> ex,
              result |-> [success |-> FALSE,
                          error |-> "workflow_id and steps required"]]
        ELSE [workflows |-> Put(wf, workflow_id,
                                [is_active |-> TRUE, steps |-> steps,
                                 triggers |-> triggers,
                                 owner |-> caller,
                                 created_at |-> current_time]),
              executions |-> ex,
              result |-> [success |-> TRUE, workflow_id |-> workflow_id]]

\* _trigger_workflow that does not look the workflow up
_trigger_workflow_unregistered(wf, ex, params, caller, current_time) ==
    LET workflow_id == Get(params, "workflow_id", NoName)
        input_data == Get(params, "input_data", EmptyDict)
        execution_id == ExecutionId(workflow_id, current_time)
    IN  IF workflow_id = NoName
        THEN [workflows |-> wf,
              executions |-> ex, result |-> [success |-> FALSE, error |-> "workflow_id required"]]
        ELSE [workflows |-> wf,
              executions |-> Put(ex, execution_id,
                                 [workflow_id |-> workflow_id,
                                  input_data |-> input_data,
                                  triggered_by |-> caller,
                                  started_at |-> current_time, status |-> "running",
                                  current_step |-> 0,
                                  step_results |-> <<>>]),
              result |-> [success |-> TRUE, execution_id |-> execution_id]]

\* WorkflowAutomationContract._trigger_workflow
_trigger_workflow(wf, ex, params, caller, current_time) ==
    LET workflow_id == Get(params, "workflow_id", NoName)
        input_data == Get(params, "input_data", EmptyDict)
        execution_id == ExecutionId(workflow_id, current_time)
    IN  IF workflow_id = NoName
        THEN [workflows |-> wf,
              executions |-> ex, result |-> [success |-> FALSE, error |-> "workflow_id required"]]
        ELSE IF ~Has(wf, workflow_id)
        THEN [workflows |-> wf,
              executions |-> ex, result |-> [success |-> FALSE, error |-> "Workflow not found"]]
        ELSE [workflows |-> wf,
              executions |-> Put(ex, execution_id,
                                 [workflow_id |-> workflow_id,
                                  input_data |-> input_data,
                                  triggered_by |-> caller,
                                  started_at |-> current_time, status |-> "running",
                                  current_step |-> 0,
                                  step_results |-> <<>>]),
              result |-> [success |-> TRUE, execution_id |-> execution_id]]

\* WorkflowAutomationContract._get_execution_status
_get_execution_status(ex, params) ==
    LET execution_id == Get(params, "execution_id", NoId)
    IN  IF execution_id = NoId
        THEN [success |-> FALSE, error |-> "execution_id required"]
        ELSE IF ~Has(ex, execution_id)
        THEN [success |-> FALSE, error |-> "Execution not found"]
        ELSE [success |-> TRUE, execution |-> ex[execution_id]]

\* WorkflowAutomationContract.execute(function, params, caller) returning r
WorkflowExecute(function, params, caller, r) ==
    /\ workflows' = r.workflows
    /\ executions' = r.executions
    /\ last' = ContractCall(function, params, caller, r.result,
                            [workflows |-> workflows,
                             executions |-> executions])
    /\ UNCHANGED <<lockVars, resourceVars>>
    /\ UNCHANGED <<instance_id, program, snapshot, loop, now, ledgerVars,
                   consensusVars, held, chain_file, created, tampered>>

RegisterParams ==
    {[workflow_id |-> "test-workflow", steps |-> <<"log">>],
     [workflow_id |-> "test-workflow"],
     [workflow_id |-> "test-workflow", steps |-> <<>>],
     [steps |-> <<"log">>]}

TriggerParams ==
    {[workflow_id |-> "test-workflow"],
     [workflow_id |-> "other-workflow"],
     [input_data |-> [test |-> TRUE]]}

\* an execution_id no trigger_workflow call returns
UnknownId == ExecutionId("test-workflow", 0)

RegisterWorkflowOf(params, caller) ==
    WorkflowExecute("register_workflow", params, caller,
        _register_workflow(workflows, executions, params, caller, now))

RegisterWorkflow == \E params \in RegisterParams : RegisterWorkflowOf(params, "A")

TriggerWorkflowOf(params, caller) ==
    WorkflowExecute("trigger_workflow", params, caller,
        _trigger_workflow(workflows, executions, params, caller, now))

TriggerWorkflow ==
    \E params \in TriggerParams, caller \in Callers :
        TriggerWorkflowOf(params, caller)

GetExecutionStatusOf(params, caller) ==
    WorkflowExecute("get_execution_status", params, caller,
        [workflows |-> workflows,
         executions |-> executions, result |-> _get_execution_status(executions, params)])

GetExecutionStatus ==
    \/ \E id \in DOMAIN executions \cup {UnknownId} :
           GetExecutionStatusOf([execution_id |-> id], "A")
    \/ GetExecutionStatusOf(<<>>, "A")

NextWorkflow ==
    \/ Sleep
    \/ RegisterWorkflow
    \/ TriggerWorkflow
    \/ GetExecutionStatus

SpecWorkflow == InitLedger /\ [][NextWorkflow]_vars

\* the workflow a contract call names, NoName when it names none
NamedWorkflow(call) == Get(call.params, "workflow_id", NoName)

\* C18: trigger_workflow on an unregistered workflow_id fails with 'Workflow
\* not found' and leaves the execution records as they were; on a registered
\* workflow_id it writes one execution record, under the execution_id it
\* returns, with status 'running', current_step 0, no step_results and
\* triggered_by = caller, and get_execution_status of that id returns it.
C18_TriggerWorkflow ==
    [][(last'.op = "trigger_workflow" /\ NamedWorkflow(last') # NoName)
       => IF ~Has(workflows, NamedWorkflow(last'))
          THEN /\ ~last'.ok
               /\ last'.result.error = "Workflow not found"
               /\ executions' = executions
          ELSE LET id == last'.result.execution_id
               IN  /\ last'.ok
                   /\ DOMAIN executions' = DOMAIN executions \cup {id}
                   /\ \A other \in DOMAIN executions \ {id} :
                          executions'[other] = executions[other]
                   /\ executions'[id].workflow_id = NamedWorkflow(last')
                   /\ executions'[id].status = "running"
                   /\ executions'[id].current_step = 0
                   /\ executions'[id].step_results = <<>>
                   /\ executions'[id].triggered_by = last'.caller
                   /\ _get_execution_status(executions',
                                            [execution_id |-> id])
                          = [success |-> TRUE, execution |-> executions'[id]]]_vars

\* C18 witness: B triggered the registered workflow, the record of the
\* returned id names B, and an earlier execution record is kept beside it
C18_Witness ==
    /\ last.op = "trigger_workflow"
    /\ last.ok
    /\ last.caller = "B"
    /\ executions[last.result.execution_id].triggered_by = "B"
    /\ executions[last.result.execution_id].status = "running"
    /\ Cardinality(DOMAIN executions) >= 2

\* C19: a successful trigger_workflow returns an execution_id that no
\* execution record had before, adds one record and leaves every existing
\* record as it was.
C19_FreshExecutionId ==
    [][(last'.op = "trigger_workflow" /\ last'.ok)
       => /\ ~Has(executions, last'.result.execution_id)
          /\ Cardinality(DOMAIN executions')
                 = Cardinality(DOMAIN executions) + 1
          /\ \A id \in DOMAIN executions :
                 Has(executions', id) /\ executions'[id] = executions[id]]_vars

-----------------------------------------------------------------------------
(* The three contracts side by side, a few calls of each *)

ContractsAcquireLock ==
    \E params \in {[entity_name |-> "E", duration_ms |-> 1000],
                   [duration_ms |-> 1000]}, caller \in Callers :
        AcquireLockOf(params, caller)

ContractsReleaseLock ==
    \E params \in {[entity_name |-> "E"], [entity_name |-> NoName], <<>>},
       caller \in Callers :
        ReleaseLockOf(params, caller)

ContractsCheckLock ==
    \E params \in {[entity_name |-> "E"], <<>>} : CheckLockOf(params, "A")

ContractsExtendLock ==
    \E params \in {[entity_name |-> "E"], [extension_ms |-> 1000],
                   [entity_name |-> "E", extension_ms |-> 1000]},
       caller \in Callers :
        ExtendLockOf(params, caller)

ContractsRequestResources ==
    \E caller \in Callers : RequestResourcesOf([cpu |-> 300], caller)

ContractsReleaseResources == \E caller \in Callers : ReleaseResourcesOf(caller)

NextContracts ==
    \/ ContractsAcquireLock
    \/ ContractsReleaseLock
    \/ ContractsCheckLock
    \/ ContractsExtendLock
    \/ ContractsRequestResources
    \/ ContractsReleaseResources
    \/ RegisterWorkflow
    \/ TriggerWorkflow
    \/ GetExecutionStatus

SpecContracts == InitLedger /\ [][NextContracts]_vars

\* a call that meets one of the business-rule failures: no entity_name; no
\* lock to release or extend, or a caller that is not its holder; no
\* allocation to release; a workflow registered without workflow_id or steps;
\* an unknown workflow; an unknown execution_id
BusinessFailure(call) ==
    \/ /\ call.op \in {"acquire_lock", "release_lock", "check_lock",
                       "extend_lock"}
       /\ NamedEntity(call) = NoName
    \/ /\ call.op \in {"release_lock", "extend_lock"}
       /\ NamedEntity(call) # NoName
       /\ \/ ~Has(locks, NamedEntity(call))
          \/ locks[NamedEntity(call)].holder # call.caller
    \/ /\ call.op = "release_resources"
       /\ ~Has(allocations, call.caller)
    \/ /\ call.op = "register_workflow"
       /\ \/ NamedWorkflow(call) = NoName
          \/ Get(call.params, "steps", <<>>) = <<>>
    \/ /\ call.op = "trigger_workflow"
       /\ \/ NamedWorkflow(call) = NoName
          \/ ~Has(workflows, NamedWorkflow(call))
    \/ /\ call.op = "get_execution_status"
       /\ \/ Get(call.params, "execution_id", NoId) = NoId
          \/ ~Has(executions, call.params.execution_id)

\* C20: a contract call that meets a business-rule failure does not raise,
\* returns a map with success = false and an error, and leaves the state of
\* the three contracts unchanged.
C20_FailuresReturnedAsData ==
    [][BusinessFailure(last')
       => /\ ~last'.raised
          /\ ~last'.ok
          /\ last'.result.success = FALSE
          /\ Has(last'.result, "error")
          /\ UNCHANGED contractVars]_vars

\* C20 witness: B was refused the release of the lock A holds, while an
\* allocation and a registered workflow exist
C20_Witness ==
    /\ last.op = "release_lock"
    /\ ~last.ok
    /\ last.result.error = "Only lock holder can release"
    /\ last.caller = "B"
    /\ locks["E"].holder = "A"
    /\ Has(allocations, "A")
    /\ Has(workflows, "test-workflow")

-----------------------------------------------------------------------------
(* execute(function, params, caller) of the three contracts: the dispatch *)

LockFunctions == {"acquire_lock", "release_lock", "check_lock", "extend_lock"}
ResourceFunctions ==
    {"request_resources", "release_resources", "get_allocation", "get_usage"}
WorkflowFunctions ==
    {"register_workflow", "trigger_workflow", "get_execution_status"}

\* what execute did: it returned r.result, or raised ValueError
Returned(r) == r @@ [raised |-> FALSE]
Raised(state) == state @@ [raised |-> TRUE, result |-> <<>>]

\* MemoryLockContract.execute that answers an unknown function with a map
MemoryLockContract_execute_soft(lk, function, params, caller, current_time) ==
    IF function = "acquire_lock"
    THEN Returned(_acquire_lock(lk, params, caller, current_time))
    ELSE IF function = "release_lock"
    THEN Returned(_release_lock(lk, params, caller))
    ELSE IF function = "check_lock"
    THEN Returned(_check_lock(lk, params, current_time))
    ELSE IF function = "extend_lock"
    THEN Returned(_extend_lock(lk, params, caller))
    ELSE Returned([locks |-> lk,
                   result |-> [success |-> FALSE, error |-> "Unknown function"]])

\* MemoryLockContract.execute
MemoryLockContract_execute(lk, function, params, caller, current_time) ==
    IF function = "acquire_lock"
    THEN Returned(_acquire_lock(lk, params, caller, current_time))
    ELSE IF function = "release_lock"
    THEN Returned(_release_lock(lk, params, caller))
    ELSE IF function = "check_lock"
    THEN Returned(_check_lock(lk, params, current_time))
    ELSE IF function = "extend_lock"
    THEN Returned(_extend_lock(lk, params, caller))
    ELSE Raised([locks |-> lk])

\* ResourceAllocationContract.execute
ResourceAllocationContract_execute(allocs, u, function, params, caller, t) ==
    IF function = "request_resources"
    THEN Returned(_request_resources(allocs, u, params, caller, t))
    ELSE IF function = "release_resources"
    THEN Returned(_release_resources(allocs, u, caller))
    ELSE IF function = "get_allocation"
    THEN Returned([allocations |-> allocs,
                   used |-> u, result |-> _get_allocation(allocs, params)])
    ELSE IF function = "get_usage"
    THEN Returned([allocations |-> allocs, used |-> u,
                   result |-> _get_usage(u)])
    ELSE Raised([allocations |-> allocs, used |-> u])

\* WorkflowAutomationContract.execute
WorkflowAutomationContract_execute(wf, ex, function, params, caller, t) ==
    IF function = "register_workflow"
    THEN Returned(_register_workflow(wf, ex, params, caller, t))
    ELSE IF function = "trigger_workflow"
    THEN Returned(_trigger_workflow(wf, ex, params, caller, t))
    ELSE IF function = "get_execution_status"
    THEN Returned([workflows |-> wf,
                   executions |-> ex, result |-> _get_execution_status(ex, params)])
    ELSE Raised([workflows |-> wf, executions |-> ex])

\* the record of an execute call on contract: what it returned, or that it raised
ExecuteCall(contract, function, params, caller, r, before) ==
    [Call(function, NoBlock, ~r.raised /\ r.result.success, r.raised)
     EXCEPT !.params = params, !.caller = caller, !.result = r.result,
            !.before = before, !.contract = contract]

\* one params map that serves every function of the three contracts
DispatchParams ==
    [instance_id |-> "A", cpu |-> 300, entity_name |-> "E",
     duration_ms |-> 1000, extension_ms |-> 1000, workflow_id |-> "test-workflow",
     steps |-> <<"log">>]

DispatchFunctions ==
    LockFunctions \cup ResourceFunctions \cup WorkflowFunctions
        \cup {"unknown_function"}

ExecuteLock ==
    \E function \in DispatchFunctions, caller \in Callers :
        LET r == MemoryLockContract_execute(locks, function, DispatchParams,
                                            caller, now)
        IN  /\ (function = "extend_lock" /\ Has(locks, "E"))
                   => locks["E"].expires <= (MaxSleeps + 1) * TickMicros
            /\ locks' = r.locks
            /\ last' = ExecuteCall("memory-lock", function, DispatchParams,
                                   caller, r, locks)
            /\ UNCHANGED <<resourceVars, workflowVars>>
            /\ UNCHANGED <<instance_id, program, snapshot, loop, now,
                           ledgerVars, consensusVars, held, chain_file,
                           created, tampered>>

ExecuteResource ==
    \E function \in DispatchFunctions, caller \in Callers :
        LET r == ResourceAllocationContract_execute(allocations, used,
                     function, DispatchParams, caller, now)
        IN  /\ allocations' = r.allocations
            /\ used' = r.used
            /\ last' = ExecuteCall("resource-allocation", function,
                                   DispatchParams, caller, r,
                                   [allocations |-> allocations,
                                    used |-> used])
            /\ UNCHANGED <<lockVars, workflowVars>>
            /\ UNCHANGED <<instance_id, program, snapshot, loop, now,
                           ledgerVars, consensusVars, held, chain_file,
                           created, tampered>>

ExecuteWorkflow ==
    \E function \in DispatchFunctions, caller \in Callers :
        LET r == WorkflowAutomationContract_execute(workflows, executions,
                     function, DispatchParams, caller, now)
        IN  /\ workflows' = r.workflows
            /\ executions' = r.executions
            /\ last' = ExecuteCall("workflow-automation", function,
                                   DispatchParams, caller, r,
                                   [workflows |-> workflows,
                                    executions |-> executions])
            /\ UNCHANGED <<lockVars, resourceVars>>
            /\ UNCHANGED <<instance_id, program, snapshot, loop, now,
                           ledgerVars, consensusVars, held, chain_file,
                           created, tampered>>

NextDispatch ==
    \/ ExecuteLock
    \/ ExecuteResource
    \/ ExecuteWorkflow

SpecDispatch == InitLedger /\ [][NextDispatch]_vars

\* the function set of a contract
FunctionsOf(contract) ==
    IF contract = "memory-lock" THEN LockFunctions
    ELSE IF contract = "resource-allocation" THEN ResourceFunctions
    ELSE WorkflowFunctions

\* C21: execute with a function name outside the contract's function set
\* raises, returns no map, and leaves the state of the contracts unchanged;
\* with a name of the set it does not raise.
C21_UnknownFunctionRaises ==
    [][last'.contract # ""
       => IF last'.op \in FunctionsOf(last'.contract)
          THEN ~last'.raised /\ Has(last'.result, "success")
          ELSE /\ last'.raised
               /\ ~last'.ok
               /\ last'.result = <<>>
               /\ UNCHANGED contractVars]_vars

\* C21 witness: the lock contract was asked for get_usage, a function of the
\* resource contract, while it holds a lock, and raised
C21_Witness ==
    /\ last.contract = "memory-lock"
    /\ last.op = "get_usage"
    /\ last.raised
    /\ Has(locks, "E")
    /\ Has(allocations, "A")

-----------------------------------------------------------------------------
(* Blocks built from transaction lists: the merkle root *)

MaxMerkleLen == 4      \* longest transaction list a block is built from

\* the transactions the lists are made of
MerkleTxs ==
    {Transaction("create_entity", d, TickMicros, "TEST-001") : d \in 1..3}

\* every transaction list of at most MaxMerkleLen transactions
MerkleLists == UNION {[1..n -> MerkleTxs] : n \in 0..MaxMerkleLen}

\* Block(index=1, ..., transactions=transactions)
BuildBlock ==
    \E transactions \in MerkleLists :
        /\ held' = Block(1, now, LatestBlock(chain).block_hash, "TEST-001",
                         transactions)
        /\ last' = [Call("Block", held', TRUE, FALSE)
                    EXCEPT !.transactions = transactions]
        /\ UNCHANGED contractVars
        /\ UNCHANGED <<instance_id, program, snapshot, loop, now, ledgerVars,
                       consensusVars, chain_file, created, tampered>>

\* block._calculate_merkle_root() over the stored transactions, compared
\* with the stored merkle_root
RecalculateMerkleRoot ==
    /\ held # NoBlock
    /\ last' = Call("_calculate_merkle_root", held,
                    _calculate_merkle_root(held.transactions)
                        = held.merkle_root, FALSE)
    /\ UNCHANGED contractVars
    /\ UNCHANGED <<instance_id, program, snapshot, loop, now, ledgerVars,
                   consensusVars, held, chain_file, created, tampered>>

NextMerkle ==
    \/ BuildBlock
    \/ RecalculateMerkleRoot

SpecMerkle == InitLedger /\ [][NextMerkle]_vars

\* the data_hash values of a transaction list
DataHashes(transactions) ==
    [i \in 1..Len(transactions) |-> transactions[i].data_hash]

\* the level above hashes: the hash of each pair, the last hash paired with
\* itself when their number is odd
PairUp(hashes) ==
    [i \in 1..((Len(hashes) + 1) \div 2) |->
        Sha256("h_pair",
               <<hashes[2 * i - 1],
                 hashes[IF 2 * i <= Len(hashes) THEN 2 * i ELSE Len(hashes)]>>)]

\* the pairwise-hash fold of a non-empty list of hashes
RECURSIVE PairwiseFold(_)
PairwiseFold(hashes) ==
    IF Len(hashes) = 1 THEN hashes[1] ELSE PairwiseFold(PairUp(hashes))

\* C22: the merkle_root of a block built from a transaction list is the
\* pairwise-hash fold of the transactions' data_hash values, sha256('empty')
\* for the empty list, and recomputing it over the stored transactions gives
\* the stored merkle_root.
C22_MerkleRootIsPairwiseFold ==
    /\ held # NoBlock
           => /\ held.merkle_root =
                     IF Len(held.transactions) = 0 THEN Sha256("h_empty", 0)
                     ELSE PairwiseFold(DataHashes(held.transactions))
              /\ _calculate_merkle_root(held.transactions) = held.merkle_root
    /\ \A i \in 1..Len(chain) :
           chain[i].merkle_root = PairwiseFold(DataHashes(chain[i].transactions))
    /\ last.op = "_calculate_merkle_root" => last.ok

\* C22 witness: the merkle root of a block of three different transactions
\* was recomputed
C22_Witness ==
    /\ last.op = "_calculate_merkle_root"
    /\ last.ok
    /\ Len(held.transactions) = 3
    /\ held.transactions[1] # held.transactions[2]
    /\ held.transactions[2] # held.transactions[3]

\* C23: a transaction list whose data_hash sequence differs from that of the
\* block's transactions never has the block's merkle_root.
C23_MerkleRootDetectsTampering ==
    held # NoBlock
        => \A transactions \in MerkleLists :
               DataHashes(transactions) # DataHashes(held.transactions)
                   => _calculate_merkle_root(transactions) # held.merkle_root

-----------------------------------------------------------------------------
(* The scheduler loops: what becomes of a sealed block *)

\* C24: in every iteration of either scheduler loop in which
\* Consensus.create_block returned a block, that block is appended to the
\* chain, whose length grows by one.
C24_SealedBlockAppended ==
    [][(last'.op \in {"server_loop", "node_loop"} /\ last'.block # NoBlock)
       => /\ Len(chain') = Len(chain) + 1
          /\ chain'[Len(chain')] = last'.block]_vars

-----------------------------------------------------------------------------
(* The scheduler loops step by step: poll, sleep, back-off *)

BackoffSeconds == 5

\* the call of one iteration that raises an exception, in the order the
\* calls are made; "none": no call does
Faults == <<"can_create_block", "create_block", "add_block", "_save_chain",
           "none">>

\* one pass through the try block in which the call `fault` raises when it
\* is reached: the state the pass leaves and whether the exception was raised
Iteration(fault) ==
    LET idle == [validators |-> validators, block |-> NoBlock,
                 index |-> current_validator_index,
                 pending |-> pending_transactions]
        polled == fault # "can_create_block"
        sealing == polled /\ can_create_block(instance_id)
        r == IF sealing /\ fault # "create_block"
             THEN consensus_create_block(instance_id) ELSE idle
        adding == program = "node" /\ r.block # NoBlock
        a == IF adding /\ fault # "add_block"
             THEN add_block(chain, transaction_pool, r.pending, r.block)
             ELSE [chain |-> chain, pool |-> transaction_pool, pending |-> r.pending,
                   ok |-> FALSE]
        saving == a.ok /\ r.block.index % 10 = 0
    IN  [chain |-> a.chain, validators |-> r.validators,
         chain_file |-> IF saving /\ fault # "_save_chain"
                        THEN SavedChain(a.chain) ELSE chain_file,
         block |-> r.block, index |-> r.index, pool |-> a.pool,
         pending |-> a.pending, ok |-> a.ok,
         raised |-> \/ fault = "can_create_block"
                    \/ fault = "create_block" /\ sealing
                    \/ fault = "add_block" /\ adding
                    \/ fault = "_save_chain" /\ saving]

\* where an uncaught exception would leave the task: it ends
AfterIteration_uncaught(raised) == IF raised THEN "stopped" ELSE "sleep"

\* where the loop goes after the try block: the sleep at its end, or the
\* sleep of `except Exception`
AfterIteration(raised) == IF raised THEN "backoff" ELSE "sleep"

\* the clock after asyncio.sleep(micros), within the range of the model
Slept(micros) ==
    IF now + micros > (MaxTicks + 1) * TickMicros
    THEN (MaxTicks + 1) * TickMicros
    ELSE now + micros

\* the try block of `while True`
LoopPoll ==
    /\ loop = "poll"
    /\ \E n \in 1..Len(Faults) :
           LET fault == Faults[n]
               i == Iteration(fault)
           IN  /\ fault # "none" => i.raised
               /\ chain' = i.chain
               /\ transaction_pool' = i.pool
               /\ pending_transactions' = i.pending
               /\ validators' = i.validators
               /\ current_validator_index' = i.index
               /\ chain_file' = i.chain_file
               /\ loop' = AfterIteration(i.raised)
               /\ last' = Call("loop_poll", i.block, i.ok, i.raised)
    /\ UNCHANGED contractVars
    /\ UNCHANGED <<instance_id, program, snapshot, now, held, created,
                   tampered>>

\* await asyncio.sleep(1) in the server, asyncio.sleep(0.5) in the node
LoopSleep ==
    /\ loop = "sleep"
    /\ now' = Slept(IF program = "server" THEN TickMicros
                    ELSE TickMicros \div 2)
    /\ loop' = "poll"
    /\ last' = Call("loop_sleep", NoBlock, TRUE, FALSE)
    /\ UNCHANGED contractVars
    /\ UNCHANGED <<instance_id, program, snapshot, ledgerVars, consensusVars,
                   held, chain_file, created, tampered>>

\* except Exception: logger.error(...); await asyncio.sleep(5)
LoopBackoff ==
    /\ loop = "backoff"
    /\ now' = Slept(BackoffSeconds * TickMicros)
    /\ loop' = "poll"
    /\ last' = Call("loop_backoff", NoBlock, TRUE, FALSE)
    /\ UNCHANGED contractVars
    /\ UNCHANGED <<instance_id, program, snapshot, ledgerVars, consensusVars,
                   held, chain_file, created, tampered>>

NextLoop ==
    \/ Tick
    \/ CreateTransaction
    \/ LoopPoll
    \/ LoopSleep
    \/ LoopBackoff

SpecLoop == Init /\ [][NextLoop]_vars

\* the event loop runs the task whenever it can take a step, and a sleep ends
SpecLoopFair ==
    /\ SpecLoop
    /\ WF_vars(LoopPoll)
    /\ WF_vars(LoopSleep)
    /\ WF_vars(LoopBackoff)

\* C25: the loop never ends on an exception: an iteration that raised is
\* followed by the back-off sleep and then by a poll, and from every state
\* of the loop a further poll is eventually made.
C25_LoopPollsAgain ==
    /\ [](last.op = "loop_poll" /\ last.raised => loop = "backoff")
    /\ (loop = "backoff") ~> (loop = "poll")
    /\ (loop = "sleep") ~> (loop = "poll")
    /\ []<><<LoopPoll>>_vars

\* C25 witness: an exception was raised after a block was sealed, the
\* back-off ended and the loop stands at its next poll
C25_Witness ==
    /\ loop = "poll"
    /\ last.op = "loop_backoff"
    /\ current_validator_index = 1
    /\ Len(chain) = 1

-----------------------------------------------------------------------------
(* The genesis block *)

\* the block Blockchain.__init__ makes with the default genesis_validator
IsGenesis(block) ==
    /\ block.index = 0
    /\ block.previous_hash = ZeroHash
    /\ block.validator = "GENESIS"
    /\ Len(block.transactions) = 1
    /\ block.transactions[1].operation = "genesis"
    /\ block.transactions[1].instance_id = "GENESIS"
    /\ block.merkle_root = _calculate_merkle_root(block.transactions)
    /\ block.block_hash = _calculate_hash(block)

\* C26: after construction the chain is the genesis block alone (index 0,
\* previous_hash of zeros, validator "GENESIS", one genesis transaction); in
\* every reachable state the chain is non-empty and its first block is that
\* genesis block, which no step replaces.
C26_GenesisIsBlockZero ==
    /\ Len(chain) = 1
    /\ [](Len(chain) >= 1 /\ IsGenesis(chain[1]))
    /\ [][chain'[1] = chain[1]]_vars

\* C26 witness: a block was appended and the genesis is still the first block
C26_Witness ==
    /\ last.op = "add_block"
    /\ last.ok
    /\ last.block.index = 1
    /\ Len(chain) = 2
    /\ IsGenesis(chain[1])
    /\ chain[2] = last.block

-----------------------------------------------------------------------------
(* The queries of the ledger and of the contracts *)

NoTransaction == [none |-> TRUE]

\* for block in self.chain: for tx in block.transactions
RECURSIVE ChainTransactions(_)
ChainTransactions(c) ==
    IF c = <<>> THEN <<>>
    ELSE c[1].transactions \o ChainTransactions(Tail(c))

\* Blockchain.get_transaction: the pool first, then the chain, else None
get_transaction(pool, c, tx_id) ==
    IF tx_id \in DOMAIN pool THEN pool[tx_id]
    ELSE LET txs == ChainTransactions(c)
             hits == {i \in 1..Len(txs) : txs[i].tx_id = tx_id}
         IN  IF hits = {} THEN NoTransaction
             ELSE txs[CHOOSE i \in hits : \A j \in hits : i <= j]

\* the code point of a hexadecimal digit, in lower case
HexDigit(d) == IF d < 10 THEN 48 + d ELSE 87 + d

\* json.dumps of one character of a str, ensure_ascii left at True: the
\* quote and the backslash get a backslash, the control characters their
\* letter, and whatever else is outside ' '..'~' becomes \uXXXX
EscapeChar(c) ==
    CASE c = 34 -> <<92, 34>>
      [] c = 92 -> <<92, 92>>
      [] c = 8 -> <<92, 98>>
      [] c = 9 -> <<92, 116>>
      [] c = 10 -> <<92, 110>>
      [] c = 12 -> <<92, 102>>
      [] c = 13 -> <<92, 114>>
      [] OTHER -> IF c < 32 \/ c > 126
                  THEN <<92, 117, HexDigit(c \div 4096),
                         HexDigit((c \div 256) % 16),
                         HexDigit((c \div 16) % 16), HexDigit(c % 16)>>
                  ELSE <<c>>

\* json.dumps of a str
RECURSIVE Escaped(_)
Escaped(str) ==
    IF str = <<>> THEN <<>>
    ELSE EscapeChar(Head(str)) \o Escaped(Tail(str))

JsonString(str) == <<34>> \o Escaped(str) \o <<34>>

\* the keys of the data of the model
KeyChars(key) ==
    CASE key = "name" -> <<110, 97, 109, 101>>
      [] key = "message" -> <<109, 101, 115, 115, 97, 103, 101>>

\* json.dumps(tx.data) of a dict of one key: {"key": "value"}
JsonDumps(data) ==
    LET key == CHOOSE k \in DOMAIN data : TRUE
    IN  <<123>> \o JsonString(KeyChars(key)) \o <<58, 32>>
            \o JsonString(data[key]) \o <<125>>

\* entity_name in json.dumps(tx.data)
Mentions(entity_name, data) ==
    LET tx_data_str == JsonDumps(data)
    IN  \E i \in 0..(Len(tx_data_str) - Len(entity_name)) :
            SubSeq(tx_data_str, i + 1, i + Len(entity_name)) = entity_name

\* sorted(results, key=lambda tx: tx.timestamp_micros): a stable sort
RECURSIVE SortedByTime(_)
SortedByTime(txs) ==
    IF txs = <<>> THEN <<>>
    ELSE LET tx == txs[Len(txs)]
             front == SortedByTime(SubSeq(txs, 1, Len(txs) - 1))
             k == Cardinality({i \in 1..Len(front) :
                      front[i].timestamp_micros <= tx.timestamp_micros})
         IN  SubSeq(front, 1, k) \o <<tx>> \o SubSeq(front, k + 1, Len(front))

\* an Optional argument: <<>> is None and <<v>> is the value v
None == <<>>
Some(v) == <<v>>

\* bool(x) of an Optional[int] and of an Optional[str]
TruthyInt(x) == x # None /\ x[1] # 0
TruthyStr(x) == x # None /\ x[1] # ""
TruthyChars(x) == x # None /\ x[1] # <<>>

\* Blockchain.get_audit_trail; `if start_time and ...` applies a filter only
\* when its argument is truthy
get_audit_trail(c, entity_name, operation, start_time, end_time) ==
    LET Keep(tx) ==
            /\ ~(TruthyInt(start_time) /\ tx.timestamp_micros < start_time[1])
            /\ ~(TruthyInt(end_time) /\ tx.timestamp_micros > end_time[1])
            /\ ~(TruthyStr(operation) /\ tx.operation # operation[1])
            /\ ~(TruthyChars(entity_name)
                    /\ ~Mentions(entity_name[1], tx.data))
    IN  SortedByTime(SelectSeq(ChainTransactions(c), Keep))

\* a query of the ledger with its arguments and what it returned
LedgerQuery(function, params, result) ==
    /\ last' = [Call(function, NoBlock, TRUE, FALSE)
                EXCEPT !.params = params, !.result = result]
    /\ UNCHANGED contractVars
    /\ UNCHANGED <<instance_id, program, snapshot, loop, now, ledgerVars,
                   consensusVars, held, chain_file, created, tampered>>

\* the tx_id of no transaction
UnknownTxId == <<0, "nobody", ZeroHash>>

GetTransaction ==
    \E tx_id \in {created[i].tx_id : i \in 1..Len(created)}
                     \cup {chain[1].transactions[1].tx_id, UnknownTxId} :
        LedgerQuery("get_transaction", [tx_id |-> tx_id],
            [transaction |-> get_transaction(transaction_pool, chain, tx_id)])

NoFilter ==
    [operation |-> None, entity_name |-> None, start_time |-> None,
     end_time |-> None]

AuditFilters ==
    {NoFilter,
     [NoFilter EXCEPT !.entity_name = Some(<<49>>)],
     [NoFilter EXCEPT !.operation = Some("create_entity")],
     [NoFilter EXCEPT !.start_time = Some(2 * TickMicros)],
     [NoFilter EXCEPT !.end_time = Some(TickMicros)]}

GetAuditTrail ==
    \E f \in AuditFilters :
        LedgerQuery("get_audit_trail", f,
            [transactions |-> get_audit_trail(chain, f.entity_name,
                                  f.operation, f.start_time, f.end_time)])

\* the mutations between which the queries run, one call of each kind
QueriesAcquireLock ==
    AcquireLockOf([entity_name |-> "E", duration_ms |-> 1000], "A")

QueriesRequestResources == RequestResourcesOf([cpu |-> 300], "A")

QueriesRegisterWorkflow ==
    RegisterWorkflowOf([workflow_id |-> "test-workflow", steps |-> <<"log">>],
                       "A")

QueriesTriggerWorkflow ==
    TriggerWorkflowOf([workflow_id |-> "test-workflow"], "A")

QueriesGetAllocation ==
    \E id \in {"A", "B", NoName} :
        ResourceExecute("get_allocation", [instance_id |-> id], "A",
            [allocations |-> allocations,
             used |-> used, result |-> _get_allocation(allocations, [instance_id |-> id])])

QueriesGetUsage ==
    ResourceExecute("get_usage", <<>>, "A",
        [allocations |-> allocations, used |-> used,
         result |-> _get_usage(used)])

NextQueries ==
    \/ Tick
    \/ CreateTransaction
    \/ NodeConsensusLoop
    \/ QueriesAcquireLock
    \/ QueriesRequestResources
    \/ QueriesRegisterWorkflow
    \/ QueriesTriggerWorkflow
    \/ GetTransaction
    \/ GetAuditTrail
    \/ QueriesGetUsage
    \/ QueriesGetAllocation
    \/ ContractsCheckLock
    \/ GetExecutionStatus

SpecQueries == InitLedger /\ [][NextQueries]_vars

QueryOps == {"get_audit_trail", "get_transaction", "get_usage",
             "get_allocation", "get_execution_status", "check_lock"}

\* the check_lock call names an entity whose lock has expired
AsksAboutExpired(call) ==
    /\ call.op = "check_lock"
    /\ NamedEntity(call) # NoName
    /\ Has(locks, NamedEntity(call))
    /\ locks[NamedEntity(call)].expires <= now

\* C27 as stated: get_audit_trail, get_usage, check_lock, get_allocation,
\* get_transaction and get_execution_status leave the ledger and the state of
\* every contract unchanged.
C27_QueriesChangeNothing ==
    [][last'.op \in QueryOps
       => UNCHANGED <<ledgerVars, consensusVars, contractVars>>]_vars

\* C27 amended: the six queries leave the ledger, the allocations, the usage,
\* the workflows and the executions unchanged, and the lock table too, except
\* that check_lock on an entity whose lock has expired (expires <= now)
\* removes that entity's lock and no other.
C27_QueriesChangeNothingButExpiredLock ==
    [][last'.op \in QueryOps
       => /\ UNCHANGED <<ledgerVars, consensusVars, resourceVars,
                         workflowVars>>
          /\ locks' = IF AsksAboutExpired(last')
                      THEN Del(locks, NamedEntity(last'))
                      ELSE locks]_vars

\* C27 witness: check_lock found the lock of E expired at this very clock
\* reading and removed it, while a transaction is in the chain and resources
\* are allocated
C27_Witness ==
    /\ last.op = "check_lock"
    /\ Has(last.before, "E")
    /\ last.before["E"].expires = now
    /\ ~Has(locks, "E")
    /\ Len(chain) = 2
    /\ allocations # EmptyDict

-----------------------------------------------------------------------------
(* The clock read and the time service *)

\* a JSON value with its Python type
JsonInt(n) == [value |-> n, type |-> "int"]
JsonValues ==
    {JsonInt(TickMicros), JsonInt(3 * TickMicros),
     [type |-> "str", text |-> "abc"],
     [type |-> "float", text |-> "1.5"],
     [type |-> "NoneType"]}

\* the body of an answer: not JSON at all, a JSON list, or a JSON object
\* without or with the key epoch_microseconds
Bodies ==
    {[type |-> "not_json"], [type |-> "list"],
     [type |-> "object", fields |-> EmptyDict]}
        \cup {[type |-> "object", fields |-> [epoch_microseconds |-> v]] :
                  v \in JsonValues}

\* what requests.get(url, timeout=1) meets; "not_configured" stands for a
\* Blockchain whose time_precision_url is None
Responses ==
    {[kind |-> "not_configured"], [kind |-> "unreachable"],
     [kind |-> "timeout"]}
        \cup {[kind |-> "answer", status_code |-> c, body |-> b] :
                  c \in {200, 404, 500}, b \in Bodies}

\* Blockchain._get_timestamp_micros with the time service answering
\* `response`: the value it returns.  requests.get raising, response.json()
\* raising and the subscript raising KeyError or TypeError are all caught by
\* `except Exception` and lead to the local clock.
_get_timestamp_micros_from(response) ==
    LET local == JsonInt(now)
    IN  IF response.kind # "answer" THEN local
        ELSE IF response.status_code # 200 THEN local
        ELSE IF response.body.type # "object" THEN local
        ELSE IF ~Has(response.body.fields, "epoch_microseconds") THEN local
        ELSE response.body.fields.epoch_microseconds

\* a call of _get_timestamp_micros
ReadClock ==
    \E response \in Responses :
        /\ last' = [Call("_get_timestamp_micros", NoBlock, TRUE, FALSE)
                    EXCEPT !.params = response,
                           !.result = _get_timestamp_micros_from(response)]
        /\ UNCHANGED contractVars
        /\ UNCHANGED <<instance_id, program, snapshot, loop, now, ledgerVars,
                       consensusVars, held, chain_file, created, tampered>>

\* create_transaction with the time service answering `response` with an
\* integer, or not answering
CreateTransactionWith(response) ==
    LET timestamp_micros == _get_timestamp_micros_from(response)
        tx == Transaction("create_entity", [name |-> <<49>>],
                          timestamp_micros.value, instance_id)
    IN  /\ timestamp_micros.type = "int"
        /\ transaction_pool' = Put(transaction_pool, tx.tx_id, tx)
        /\ pending_transactions' = Append(pending_transactions, tx)
        /\ created' = Append(created, tx)
        /\ last' = [Call("create_transaction", NoBlock, TRUE, FALSE)
                    EXCEPT !.params = response,
                           !.result = timestamp_micros]
        /\ UNCHANGED contractVars
        /\ UNCHANGED <<instance_id, program, snapshot, loop, now, chain,
                       consensusVars, held, chain_file, tampered>>

CreateTransactionTimed ==
    /\ Len(created) < MaxTx
    /\ \E response \in Responses : CreateTransactionWith(response)

NextClock ==
    \/ Tick
    \/ ReadClock
    \/ CreateTransactionTimed

SpecClock == Init /\ [][NextClock]_vars

\* the answers after which the claim has the clock read use the local
\* clock: no service configured, no answer, a status other than 200, a body
\* that is not a JSON object holding an integer epoch_microseconds
FallsBack(response) ==
    \/ response.kind # "answer"
    \/ response.status_code # 200
    \/ response.body.type # "object"
    \/ ~Has(response.body.fields, "epoch_microseconds")
    \/ response.body.fields.epoch_microseconds.type # "int"

\* C28: the clock read raises nothing and returns an integer, which is the
\* local clock's reading whenever the time service is not configured, does
\* not answer, answers with a status other than 200 or with a malformed body.
C28_ClockReadReturnsInteger ==
    [][last'.op = "_get_timestamp_micros"
       => /\ ~last'.raised
          /\ last'.result.type = "int"
          /\ FallsBack(last'.params) => last'.result = JsonInt(now)]_vars

-----------------------------------------------------------------------------
(* Whose turn it is to seal a block *)

\* the ids can_create_block is asked about: the registered ones and a stranger
AskedIds ==
    {validators[i].instance_id : i \in 1..Len(validators)}
        \cup {"Intruder-999"}

\* ProofOfAuthority.can_create_block(id), a call that changes nothing
CanCreateBlock ==
    \E id \in AskedIds :
        /\ last' = [Call("can_create_block", NoBlock, can_create_block(id),
                         FALSE)
                    EXCEPT !.validator = id]
        /\ UNCHANGED contractVars
        /\ UNCHANGED <<instance_id, program, snapshot, loop, now, ledgerVars,
                       consensusVars, held, chain_file, created, tampered>>

NextTurn ==
    \/ Tick
    \/ CreateTransaction
    \/ AddValidator
    \/ RemoveAnyValidator
    \/ ConsensusCreateBlock
    \/ NodeConsensusLoop
    \/ CanCreateBlock

SpecTurn == InitLedger /\ [][NextTurn]_vars

\* milliseconds on the clock since the head block's timestamp
ElapsedMs == (now - chain[Len(chain)].timestamp_micros) \div 1000

\* the active validators' ids in registry order
ActiveIds == [i \in 1..Len(ActiveValidators(validators)) |->
                 ActiveValidators(validators)[i].instance_id]

\* C29: can_create_block(id) is true exactly when the current leader exists
\* and is id, at least block_time milliseconds have passed since the head
\* block's timestamp and a transaction is pending; it is false when no
\* validator is active and when id is not registered or is deactivated.
C29_CanCreateBlock ==
    [][last'.op = "can_create_block"
       => LET id == last'.validator
              N == ActiveCount(validators)
          IN  /\ last'.ok <=>
                     /\ N > 0
                     /\ ActiveIds[(current_validator_index % N) + 1] = id
                     /\ ElapsedMs >= block_time
                     /\ pending_transactions # <<>>
              /\ N = 0 => ~last'.ok
              /\ ~IsActive(validators, id) => ~last'.ok
              /\ UNCHANGED <<ledgerVars, consensusVars>>]_vars

\* C29 witness: can_create_block said yes to the leader, a second after the
\* head block, with a transaction pending, while a validator is deactivated
C29_Witness ==
    /\ last.op = "can_create_block"
    /\ last.ok
    /\ last.validator = get_current_validator(validators,
                                              current_validator_index)
    /\ ElapsedMs >= block_time
    /\ Len(pending_transactions) > 0
    /\ ActiveCount(validators) < Len(validators)

-----------------------------------------------------------------------------
(* Consensus.create_block and what it touches *)

\* C30: Consensus.create_block(id) returns no block and leaves the pointer,
\* the pending list and every last_block_time as they were when
\* can_create_block(id) is false; otherwise it returns the block
\* Ledger.create_block builds for validator id, sets id's last_block_time to
\* the block's timestamp and moves the pointer on by one; in both cases the
\* chain is as it was.
C30_ConsensusCreateBlock ==
    [][last'.op = "consensus_create_block"
       => LET id == last'.validator
              k == Position(validators, id)
          IN  /\ chain' = chain
              /\ transaction_pool' = transaction_pool
              /\ IF ~can_create_block(id)
                 THEN /\ last'.block = NoBlock
                      /\ UNCHANGED <<current_validator_index,
                                     pending_transactions, validators>>
                 ELSE /\ last'.block = NewBlock(BlockTransactions(FALSE, <<>>),
                                                id)
                      /\ last'.block.validator = id
                      /\ pending_transactions' = PendingAfterCreate(FALSE)
                      /\ current_validator_index'
                             = current_validator_index + 1
                      /\ validators'[k].last_block_time
                             = last'.block.timestamp_micros
                      /\ \A i \in 1..Len(validators) :
                             i # k => validators'[i] = validators[i]]_vars

\* C30 witness: a block came back, the pointer has moved on and the chain is
\* still the genesis alone
C30_Witness ==
    /\ last.op = "consensus_create_block"
    /\ last.block # NoBlock
    /\ last.block.validator = last.validator
    /\ current_validator_index = 1
    /\ Len(chain) = 1

-----------------------------------------------------------------------------
(* The audit trail: what get_audit_trail returns of a chain *)

MaxAuditTx == 2

AuditOperations == {"create_entity", "add_observation"}

\* the entity names "a" and "\u00e9" (e with an acute accent)
AuditNames == {<<97>>, <<233>>}

AuditCreateTransaction ==
    /\ Len(created) < MaxAuditTx
    /\ \E operation \in AuditOperations, entity_name \in AuditNames :
           CreateTransactionOf(operation, [name |-> entity_name], NoKey)

\* a peer's block, built on the head with the peer's older clock reading
AuditAddPeerBlock ==
    /\ Len(chain) < MaxChain
    /\ AddBlockOf(Candidate("none", "Balthasar-001"))

AuditQueryFilters ==
    {NoFilter}
    \cup {[NoFilter EXCEPT !.entity_name = Some(n)] : n \in AuditNames}
    \cup {[NoFilter EXCEPT !.operation = Some(o)] :
               o \in AuditOperations \cup {""}}
    \cup {[NoFilter EXCEPT !.start_time = Some(t)] : t \in {2 * TickMicros}}
    \cup {[NoFilter EXCEPT !.end_time = Some(t)] : t \in {0, TickMicros}}
    \cup {[NoFilter EXCEPT !.operation = Some("create_entity"),
                           !.start_time = Some(2 * TickMicros)]}

AuditQuery ==
    \E f \in AuditQueryFilters :
        LedgerQuery("get_audit_trail", f,
            [transactions |-> get_audit_trail(chain, f.entity_name,
                                  f.operation, f.start_time, f.end_time)])

NextAudit ==
    \/ Tick
    \/ AuditCreateTransaction
    \/ BatchCreateBlock
    \/ BatchAddBlock
    \/ AuditAddPeerBlock
    \/ AuditQuery

SpecAudit == InitLedger /\ [][NextAudit]_vars

\* tx passes every filter that was supplied (is not None)
PassesSupplied(tx, f) ==
    /\ f.start_time # None => tx.timestamp_micros >= f.start_time[1]
    /\ f.end_time # None => tx.timestamp_micros <= f.end_time[1]
    /\ f.operation # None => tx.operation = f.operation[1]
    /\ f.entity_name # None => Mentions(f.entity_name[1], tx.data)

\* how many times tx stands in the list txs
Occurrences(txs, tx) == Cardinality({i \in 1..Len(txs) : txs[i] = tx})

\* the transactions of the blocks appended after the genesis block
SealedTransactions == ChainTransactions(Tail(chain))

\* C31: get_audit_trail returns exactly the transactions in blocks of the
\* chain that pass every supplied filter (inclusive time range, exact
\* operation, entity name as a substring of the serialized data), ascending
\* by timestamp_micros; filtering by the operation of sealed transactions or
\* by an entity name they carry returns all of them
C31_AuditTrail ==
    [][last'.op = "get_audit_trail" =>
        LET f == last'.params
            results == last'.result.transactions
            all == ChainTransactions(chain)
            sealed == SealedTransactions
        IN  /\ \A i \in 1..Len(all) :
                   Occurrences(results, all[i]) =
                       IF PassesSupplied(all[i], f)
                       THEN Occurrences(all, all[i]) ELSE 0
            /\ \A i \in 1..Len(results) :
                   Occurrences(all, results[i]) > 0
            /\ \A i, j \in 1..Len(results) :
                   i < j => results[i].timestamp_micros
                                <= results[j].timestamp_micros
            /\ \A i \in 1..Len(sealed) :
                   /\ f = [NoFilter EXCEPT
                               !.operation = Some(sealed[i].operation)]
                          => Occurrences(results, sealed[i]) > 0
                   /\ f = [NoFilter EXCEPT
                               !.entity_name = Some(sealed[i].data.name)]
                          => Occurrences(results, sealed[i]) > 0]_vars

-----------------------------------------------------------------------------
(* The execute_contract tool of the server *)

ContractNames == {"memory-lock", "resource-allocation", "workflow-automation"}

\* contract.execute(function, params, caller) of the contract registered
\* under contract_name: the three contracts' state after it and its outcome
ContractExecute(contract_name, function, params, caller) ==
    LET state == [locks |-> locks, allocations |-> allocations, used |-> used,
                  workflows |-> workflows, executions |-> executions]
    IN  CASE contract_name = "memory-lock" ->
                 MemoryLockContract_execute(locks, function, params, caller,
                                            now) @@ state
          [] contract_name = "resource-allocation" ->
                 ResourceAllocationContract_execute(allocations, used,
                     function, params, caller, now) @@ state
          [] contract_name = "workflow-automation" ->
                 WorkflowAutomationContract_execute(workflows, executions,
                     function, params, caller, now) @@ state

\* MemoryBlockchainServer._handle_execute_contract: `result` is the dict the
\* contract returned, the transaction's data holds that same dict, and
\* result["tx_id"] = tx.tx_id writes into it after the transaction was built
HandleExecuteContractOf(contract_name, function, params) ==
    IF contract_name \notin ContractNames
    THEN /\ last' = [Call("execute_contract", NoBlock, TRUE, FALSE) EXCEPT
                        !.params = params, !.contract = contract_name,
                        !.result = [error |-> "Unknown contract"]]
         /\ UNCHANGED contractVars
         /\ UNCHANGED <<instance_id, program, snapshot, loop, now, ledgerVars,
                        consensusVars, held, chain_file, created, tampered>>
    ELSE LET r == ContractExecute(contract_name, function, params, instance_id)
             built == NewTransaction("execute_contract",
                          [params |-> params, result |-> r.result,
                           contract |-> contract_name, function |-> function],
                          NoKey)
             result == Put(r.result, "tx_id", built.tx_id)
             tx == [built EXCEPT !.data.result = result]
         IN  /\ locks' = r.locks
             /\ allocations' = r.allocations
             /\ used' = r.used
             /\ workflows' = r.workflows
             /\ executions' = r.executions
             /\ IF r.raised
                THEN /\ last' = [Call("execute_contract", NoBlock, FALSE, TRUE)
                                    EXCEPT !.params = params,
                                           !.contract = contract_name]
                     /\ UNCHANGED <<ledgerVars, created>>
                ELSE /\ transaction_pool' = Put(transaction_pool, tx.tx_id, tx)
                     /\ pending_transactions' =
                            Append(pending_transactions, tx)
                     /\ created' = Append(created, tx)
                     /\ chain' = chain
                     /\ last' = [Call("execute_contract", NoBlock, TRUE, FALSE)
                                    EXCEPT !.params = params,
                                           !.contract = contract_name,
                                           !.result = result]
             /\ UNCHANGED <<instance_id, program, snapshot, loop, now,
                            consensusVars, held, chain_file, tampered>>

HandlerFunctions ==
    {"acquire_lock", "check_lock", "request_resources", "get_usage",
     "register_workflow", "trigger_workflow", "unknown_function"}

MaxHandlerCalls == 2

HandleExecuteContract ==
    /\ Len(created) < MaxHandlerCalls
    /\ \E contract_name \in ContractNames \cup {"no-such-contract"},
          function \in HandlerFunctions :
           HandleExecuteContractOf(contract_name, function, DispatchParams)

NextHandler ==
    \/ Tick
    \/ HandleExecuteContract
    \/ BatchCreateBlock
    \/ BatchAddBlock

InitServer == Init /\ program = "server"

SpecHandler == InitServer /\ [][NextHandler]_vars

\* the transactions that record a contract execution, wherever they are kept
ExecutionRecords(pending, pool, c) ==
    {tx \in Range(pending) \cup {pool[k] : k \in DOMAIN pool}
                \cup Range(ChainTransactions(Tail(c))) :
        tx.operation = "execute_contract"}

\* C32: every execute_contract call that returns a contract's result queues
\* exactly one "execute_contract" transaction; the data of such a
\* transaction never changes after data_hash was computed, so the recomputed
\* data_hash equals the stored one, and a block that create_block built of
\* such transactions is accepted by add_block
C32_ExecutionRecordImmutable ==
    [][/\ (last'.op = "execute_contract" /\ ~last'.raised
              /\ last'.contract \in ContractNames) =>
           /\ Len(pending_transactions') = Len(pending_transactions) + 1
           /\ LET tx == pending_transactions'[Len(pending_transactions')]
              IN  /\ tx.operation = "execute_contract"
                  /\ tx.data.contract = last'.contract
                  /\ tx.tx_id = last'.result["tx_id"]
       /\ \A tx \in ExecutionRecords(pending_transactions',
                                      transaction_pool', chain') :
              tx.data_hash = _calculate_data_hash(tx)
       /\ (last'.op = "add_block" /\ last'.block = held
              /\ \A i \in 1..Len(held.transactions) :
                     held.transactions[i].operation = "execute_contract")
             => last'.ok]_vars

-----------------------------------------------------------------------------
(* SmartContract.get_state and the ContractState it returns *)

\* the keys of self.state of each contract
StateKeys(contract_name) ==
    CASE contract_name = "memory-lock" -> {"locks", "lock_duration_ms"}
      [] contract_name = "resource-allocation" ->
             {"allocations", "limits", "used"}
      [] contract_name = "workflow-automation" -> {"workflows", "executions"}

\* self.state[key]: the object the contract's state dict holds under key
Live(key) ==
    CASE key = "locks" -> locks
      [] key = "lock_duration_ms" -> lock_duration_ms
      [] key = "allocations" -> allocations
      [] key = "limits" -> limits
      [] key = "used" -> used
      [] key = "workflows" -> workflows
      [] key = "executions" -> executions

\* the keys whose value is a dict keyed by names or ids
Tables == {"locks", "allocations", "workflows", "executions"}

\* SmartContract.get_state: state=self.state.copy() is a new dict of the
\* same keys that holds the same value objects.  `taken` is what the values
\* were at the call, `rebound` the keys the caller has given another value
\* since, and every other key still holds the contract's own object
get_state(contract_name) ==
    [contract |-> contract_name,
     taken |-> [key \in StateKeys(contract_name) |-> Live(key)],
     rebound |-> EmptyDict,
     touched |-> FALSE]

\* state.state[key] of a ContractState got from get_state
StateValue(state, key) ==
    IF Has(state.rebound, key) THEN state.rebound[key] ELSE Live(key)

GetState ==
    \E contract_name \in ContractNames :
        /\ snapshot' = get_state(contract_name)
        /\ last' = [Call("get_state", NoBlock, TRUE, FALSE) EXCEPT
                       !.contract = contract_name]
        /\ UNCHANGED contractVars
        /\ UNCHANGED <<instance_id, program, loop, now, ledgerVars,
                       consensusVars, held, chain_file, created, tampered>>

\* the caller's  state.state[key] = {}
SnapshotSetKey ==
    /\ snapshot # NoSnapshot
    /\ \E key \in DOMAIN snapshot.taken :
           /\ snapshot' = [snapshot EXCEPT !.rebound = Put(@, key, EmptyDict),
                                           !.touched = TRUE]
           /\ last' = [Call("snapshot_set_key", NoBlock, TRUE, FALSE) EXCEPT
                          !.params = [key |-> key]]
    /\ UNCHANGED contractVars
    /\ UNCHANGED <<instance_id, program, loop, now, ledgerVars, consensusVars,
                   held, chain_file, created, tampered>>

\* the caller's  state.state[key].clear(): it empties the dict that the
\* ContractState holds under key, which is the contract's own dict unless
\* the caller has rebound the key
SnapshotClear ==
    /\ snapshot # NoSnapshot
    /\ \E key \in DOMAIN snapshot.taken \cap Tables :
           /\ IF Has(snapshot.rebound, key)
              THEN /\ snapshot' = [snapshot EXCEPT
                                      !.rebound = Put(@, key, EmptyDict),
                                      !.touched = TRUE]
                   /\ UNCHANGED contractVars
              ELSE /\ snapshot' = [snapshot EXCEPT !.touched = TRUE]
                   /\ locks' = IF key = "locks" THEN EmptyDict ELSE locks
                   /\ allocations' = IF key = "allocations" THEN EmptyDict
                                     ELSE allocations
                   /\ used' = used
                   /\ workflows' = IF key = "workflows" THEN EmptyDict
                                   ELSE workflows
                   /\ executions' = IF key = "executions" THEN EmptyDict
                                    ELSE executions
           /\ last' = [Call("snapshot_clear", NoBlock, TRUE, FALSE) EXCEPT
                          !.params = [key |-> key]]
    /\ UNCHANGED <<instance_id, program, loop, now, ledgerVars, consensusVars,
                   held, chain_file, created, tampered>>

NextSnapshot ==
    \/ QueriesAcquireLock
    \/ QueriesRequestResources
    \/ QueriesRegisterWorkflow
    \/ QueriesTriggerWorkflow
    \/ GetState
    \/ SnapshotSetKey
    \/ SnapshotClear

SpecSnapshot == InitLedger /\ [][NextSnapshot]_vars

\* C33: a ContractState got from get_state stays as it was when it was
\* taken whatever execute calls follow (until its holder changes it), and
\* changing its state map does not change the contract's live state
C33_GetStateIsSnapshot ==
    /\ [](snapshot # NoSnapshot /\ ~snapshot.touched =>
             \A key \in DOMAIN snapshot.taken :
                 StateValue(snapshot, key) = snapshot.taken[key])
    /\ [][last'.op \in {"snapshot_set_key", "snapshot_clear"}
             => UNCHANGED contractVars]_vars

-----------------------------------------------------------------------------
(* The chain under every way a block can reach it *)

NextChain ==
    \/ Tick
    \/ CreateTransaction
    \/ CreateBlock
    \/ AddBlock
    \/ HandleNewBlock

SpecChain == InitLedger /\ [][NextChain]_vars

\* C34: under create_transaction, create_block, add_block and
\* handle_new_block with arbitrary candidate blocks the chain is append-only
\* and hash-linked: the block at position i has index i, every block after
\* the genesis block names its predecessor's block_hash, appended blocks are
\* never removed or replaced, and no second block of index 0 is appended
C34_AppendOnlyHashLinked ==
    /\ [](\A i \in 1..Len(chain) :
             /\ chain[i].index = i - 1
             /\ i > 1 => chain[i].previous_hash = chain[i - 1].block_hash)
    /\ [][/\ Len(chain') >= Len(chain)
          /\ SubSeq(chain', 1, Len(chain)) = chain]_vars

-----------------------------------------------------------------------------
(* The resource contract under every integer quantity *)

\* execute passes params to _request_resources without calling validate
CapacityRequests ==
    {[cpu |-> 300], [cpu |-> 100], [cpu |-> 500], [cpu |-> 0 - 100],
     [memory |-> 16384], [memory |-> 0 - 1024],
     [cpu |-> 50, memory |-> 1024, storage |-> 5120],
     [storage |-> 102400], [storage |-> 0 - 5120]}

CapacityRequestResources ==
    \E params \in CapacityRequests, caller \in {"A", "B"} :
        RequestResourcesOf(params, caller)

CapacityReleaseResources ==
    \E caller \in {"A", "B"} : ReleaseResourcesOf(caller)

NextCapacity ==
    \/ CapacityRequestResources
    \/ CapacityReleaseResources

SpecCapacity == InitLedger /\ [][NextCapacity]_vars

\* C35: after any request_resources and release_resources calls, with any
\* integer quantities, 0 <= used[d] <= limit[d] in every dimension
C35_CapacityNeverExceeded ==
    \A d \in Dimensions : 0 <= used[d] /\ used[d] <= Limit(d)

-----------------------------------------------------------------------------
(* A node that only ever runs its own scheduler loop *)

MaxSoloTx == 2

SoloCreateTransaction ==
    /\ Len(created) < MaxSoloTx
    /\ CreateTransactionOf("create_entity", [name |-> <<49>>], NoKey)

\* the registry is set up before anything is submitted: remove_validator
\* calls that leave at least two validators active
SoloRemoveValidator ==
    /\ Len(chain) = 1
    /\ created = <<>>
    /\ \E id \in {validators[i].instance_id : i \in 1..Len(validators)} :
           /\ ActiveCount([validators EXCEPT
                               ![Position(validators, id)].is_active = FALSE])
                  >= 2
           /\ RemoveValidatorOf(id)

NextSolo ==
    \/ Sleep
    \/ SoloCreateTransaction
    \/ SoloRemoveValidator
    \/ NodeConsensusLoop

SpecSolo == InitLedger /\ [][NextSolo]_vars

\* C36: with at least two active validators, none added or deactivated and
\* no block received, the node's loop seals at most one block: after it the
\* pointer rests on another validator, can_create_block(node id) stays
\* false, and the chain never takes another transaction
C36_NodeSealsAtMostOneBlock ==
    /\ [](Len(chain) <= 2)
    /\ [](Len(chain) = 2 =>
             /\ get_current_validator(validators, current_validator_index)
                    # instance_id
             /\ ~can_create_block(instance_id))
    /\ [][Len(chain) = 2 =>
             /\ chain' = chain
             /\ current_validator_index' = current_validator_index]_vars

\* C36 witness: one block is sealed, a transaction submitted after it is
\* pending, block_time has passed since the head, and the loop has polled
\* without sealing
C36_Witness ==
    /\ Len(chain) = 2
    /\ Len(pending_transactions) > 0
    /\ created[Len(created)].timestamp_micros
           > chain[2].timestamp_micros
    /\ ElapsedMs >= block_time
    /\ last.op = "node_loop"
    /\ last.block = NoBlock

-----------------------------------------------------------------------------
(* Deactivating a validator that does not hold the turn *)

\* C37: whenever remove_validator is called for a validator other than the one
\* get_current_validator returns, get_current_validator returns the same
\* validator after the call as before it.
C37_DeactivationKeepsTurn ==
    [][(/\ last'.op = "remove_validator"
        /\ last'.validator
               # get_current_validator(validators, current_validator_index))
       => get_current_validator(validators', current_validator_index')
              = get_current_validator(validators, current_validator_index)]_vars

-----------------------------------------------------------------------------
(* Expired locks *)

\* C38: whenever release_lock or extend_lock is called on an entity whose lock
\* has expired (now >= expires), check_lock does not report the entity locked
\* after the call, and the call's result is the one the same call gives after
\* a check_lock on the entity has evicted the expired entry.
C38_ExpiredLockNotRevived ==
    [][LET e == NamedEntity(last')
           params == [entity_name |-> e]
           evicted == _check_lock(locks, params, now).locks
       IN  (/\ last'.op \in {"release_lock", "extend_lock"}
            /\ Has(locks, e)
            /\ now >= locks[e].expires)
           => /\ ~_check_lock(locks', params, now).result.locked
              /\ last'.result
                   = IF last'.op = "release_lock"
                     THEN _release_lock(evicted, last'.params,
                                        last'.caller).result
                     ELSE _extend_lock(evicted, last'.params,
                                       last'.caller).result]_vars

-----------------------------------------------------------------------------
(* Transactions recorded more than once *)

\* the tx_ids of the transactions of the chain c, block after block
ChainTxIds(c) ==
    LET txs == ChainTransactions(c)
    IN  [k \in 1..Len(txs) |-> txs[k].tx_id]

\* C39: whenever add_block or handle_new_block accepts a block that carries
\* the next index, names the head's block_hash and passes validation, onto a
\* chain in which no tx_id occurs twice, no tx_id occurs twice in the chain
\* after it, neither in two blocks nor twice inside one block.
C39_NoTransactionTwice ==
    [][(/\ last'.op \in {"add_block", "handle_new_block"}
        /\ last'.ok
        /\ last'.block.index = Len(chain)
        /\ last'.block.previous_hash = LatestBlock(chain).block_hash
        /\ _validate_block(chain, last'.block)
        /\ \A id \in Range(ChainTxIds(chain)) :
               Occurrences(ChainTxIds(chain), id) = 1)
       => \A id \in Range(ChainTxIds(chain')) :
              Occurrences(ChainTxIds(chain'), id) = 1]_vars

-----------------------------------------------------------------------------
(* The node's chain.json across a restart *)

\* BlockchainNode._save_chain
SaveChain ==
    /\ program = "node"
    /\ chain_file' = SavedChain(chain)
    /\ last' = Call("_save_chain", NoBlock, TRUE, FALSE)
    /\ UNCHANGED contractVars
    /\ UNCHANGED <<instance_id, program, snapshot, loop, now, ledgerVars,
                   consensusVars, held, created, tampered>>

\* BlockchainNode._load_chain: the chain it leaves in the node whose
\* Blockchain holds the chain c; chain_data is read from the file, its length
\* logged, and nothing is rebuilt from it
_load_chain(c, file) == c

\* BlockchainNode.__init__ of a new process: a new Blockchain with its own
\* genesis block, the four validators of _init_consensus, then _load_chain
Restart ==
    /\ program = "node"
    /\ chain' = _load_chain(<<GenesisBlock("GENESIS", now)>>, chain_file)
    /\ pending_transactions' = <<>>
    /\ transaction_pool' = <<>>
    /\ validators' = DefaultValidators
    /\ current_validator_index' = 0
    /\ held' = NoBlock
    /\ loop' = "poll"
    /\ last' = Call("restart", NoBlock, chain_file # <<>>, FALSE)
    /\ UNCHANGED contractVars
    /\ UNCHANGED <<instance_id, program, snapshot, now, chain_file, created,
                   tampered>>

NextRestart ==
    \/ Tick
    \/ CreateTransaction
    \/ CreateBlock
    \/ AddBlock
    \/ SaveChain
    \/ Restart

SpecRestart == InitLedger /\ [][NextRestart]_vars

\* C40: whenever the node is restarted with a chain.json that _save_chain has
\* written, the node's chain after the restart is the saved chain, the same
\* blocks in the same order.
C40_SnapshotRoundTrips ==
    [][(last'.op = "restart" /\ chain_file # <<>>)
       => chain' = chain_file]_vars

-----------------------------------------------------------------------------
(* The whole program: every call in any order *)

Next ==
    \/ Tick
    \/ CreateTransaction
    \/ CreateBlock
    \/ AddBlock
    \/ VerifyIntegrity
    \/ AddValidator
    \/ RemoveValidator
    \/ GetCurrentValidator
    \/ ConsensusCreateBlock
    \/ HandleNewBlock
    \/ ServerConsensusLoop
    \/ NodeConsensusLoop
    \/ Sleep
    \/ AcquireLock
    \/ ReleaseLock
    \/ CheckLock
    \/ ExtendLock
    \/ RequestResources
    \/ ReleaseResources
    \/ GetAllocation
    \/ GetUsage
    \/ RegisterWorkflow
    \/ TriggerWorkflow
    \/ GetExecutionStatus
    \/ ExecuteLock
    \/ ExecuteResource
    \/ ExecuteWorkflow
    \/ LoopPoll
    \/ LoopSleep
    \/ LoopBackoff
    \/ GetTransaction
    \/ GetAuditTrail
    \/ ReadClock
    \/ CanCreateBlock

Spec == Init /\ [][Next]_vars

=============================================================================
